---- MODULE Spec2Model ----
(***************************************************************************)
(* A state-machine model of OtterLang's task runtime (scheduler, join      *)
(* state, channels) and of its compilation cache and driver pipeline.      *)
(*                                                                         *)
(* Each subsystem has its own variables, initial predicate, next-state     *)
(* relation and specification; a subsystem's actions leave the other       *)
(* subsystems' variables unchanged.                                        *)
(***************************************************************************)
EXTENDS Integers, Sequences, FiniteSets, TLC

(***************************************************************************)
(* Bounds of the model.                                                    *)
(***************************************************************************)
\* SchedulerConfig.max_workers: the machine's available parallelism, here 2.
NumWorkers == 2
\* Number of spawn_fn calls explored.
MaxTasks == 2
\* Number of client threads that call JoinHandle::join.
NumJoiners == 1
\* Number of JoinFutures (one async client each), and the number of polls of
\* one JoinFuture that return Pending.
NumPollers == 1
MaxPolls == 2

\* Number of threads that use the channel.
NumProcs == 2
\* Number of send calls explored, and the number of distinct values sent.
MaxSends == 3
NumValues == 2

\* Number of distinct cache keys (fingerprints) and of artifact byte sizes.
NumKeys == 2
NumSizes == 2
\* Artifact sizes are the multiples of SizeStep, so that sizes of one and of
\* two decimal digits occur.
SizeStep == 6

\* Fingerprinting: number of input files on disk, bytes per file, and the
\* longest list of inputs (primary and imports) handed to fingerprint.
NumFiles == 2
FileLen == 2
MaxInputs == 2

\* Lexing: the largest number of lines of a source.
MaxLines == 3

\* Lowering: the largest number of elif arms of an if statement.
MaxElifs == 2

\* Channel entry points: threads, channels of one type, sends in all.
NumFfiThreads == 2
NumChans == 2
MaxFfiSends == 2

\* Task entry points: how many tasks are spawned in all.
NumFfiTasks == 2

\* try: how many tries are called in all, how deeply they nest.
MaxTries == 3
MaxDepth == 2

\* Lowering: the number of function names, the most arguments of a call.
NumFns == 2
MaxArgs == 1

\* JIT function cache: the threads calling it, the calls they make in all,
\* the specialization keys, the longest code, the cache's capacity in bytes
\* and the width of usize (scaled down from 64 bits).
NumFcThreads == 2
MaxFcCalls == 3
NumFcKeys == 2
MaxCodeLen == 3
max_size_bytes == 2
UsizeBits == 4

Workers == 1..NumWorkers
Joiners == 1..NumJoiners
Pollers == 1..NumPollers
\* Task ids handed out by NEXT_TASK_ID: spawn_fn's tasks and shutdown's no-ops.
TaskIds == 1..(MaxTasks + NumWorkers)
NoTask == 0
Procs == 1..NumProcs
Values == 1..NumValues
\* recv/try_recv results that are not a value: no call yet, and None.
NoResult == 0
Absent == 0 - 1
\* CacheKey values: one per (inputs, build options, compiler version).
Keys == 1..NumKeys
\* Byte sizes a linked artifact can have.
Sizes == {SizeStep * i : i \in 1..NumSizes}
\* A path at which no file exists.
NoFile == 0
\* Canonical paths of the input files on disk.
Files == 1..NumFiles
\* Paths a caller can list as inputs: the canonical ones and one symlink.
ListedPaths == 1..(NumFiles + 1)
\* The compiler version strings handed to fingerprint.
Versions == {"otter-version", "test-version"}

VARIABLES
    \* ---- scheduler (src/src/runtime/task/scheduler.rs, task.rs, metrics.rs)
    shutdown,      \* SchedulerCore.shutdown
    nextTaskId,    \* NEXT_TASK_ID
    userTasks,     \* ids of the tasks created by spawn_fn (those with a JoinHandle)
    injector,      \* SchedulerCore.injector, a FIFO of task ids
    local,         \* local[w]: worker w's deque (Worker::new_fifo)
    wpc,           \* wpc[w]: worker w's position in worker_loop
    frame,         \* frame[w]: the task worker w holds in its frame, or NoTask
    via,           \* via[w]: the branch of worker_loop that took frame[w]
    stealIdx,      \* stealIdx[w]: position in `for stealer in &stealers`
    invoked,       \* invoked[t]: how many times task t's callable was called
    funcDone,      \* funcDone[t]: task t's callable has returned
    completed,     \* completed[t]: JoinInner.completed of task t's JoinState
    joinLock,      \* joinLock[t]: holder of JoinState.inner's mutex (0: free)
    jpc,           \* jpc[j]: client thread j's position in wait_blocking
    jtarget,       \* jtarget[j]: the task whose handle client j joins
    mSpawned,      \* TaskRuntimeMetrics.spawned
    mCompleted,    \* TaskRuntimeMetrics.completed
    mWaiting,      \* TaskRuntimeMetrics.waiting
    waiters,       \* waiters[t]: JoinInner.waiters of task t (whose waker, in order)
    pollTarget,    \* pollTarget[p]: the task whose JoinFuture async client p polls
    pollLast,      \* pollLast[p]: what p's last poll returned
    pollPending,   \* pollPending[p]: how many of p's polls returned Pending
    wakes,         \* wakes[p]: how many times a waker of p was woken
    \* ---- one TaskChannel (src/src/runtime/task/channel.rs)
    chQueue,       \* the unbounded crossbeam queue behind sender/receiver
    chHandles,     \* threads holding a TaskChannel handle (an Arc<ChannelInner>)
    chRawSenders,  \* threads holding a Sender obtained from clone_sender
    chPc,          \* chPc[p]: "recv" while thread p is blocked in recv()
    chLast,        \* chLast[p]: what p's last recv/try_recv returned
    chSent,        \* every value sent, in the order the sends completed
    chRecvd,       \* every value returned by recv/try_recv, in return order
    chBacklog,     \* TaskRuntimeMetrics.channel_backlog
    \* ---- cache directory and one driver invocation at a time
    \*      (src/src/cache/manager.rs, metadata.rs, src/src/cli.rs,
    \*       src/src/codegen/llvm.rs)
    metaFile,      \* metaFile[k]: the file at metadata_path(k)
    binFile,       \* binFile[k]: byte size of the file at binary_path(k), or NoFile
    objFile,       \* objFile[k]: binary_path(k).with_extension("o") exists
    cpc,           \* the driver's position in compile_pipeline ("idle": not running)
    ckey,          \* cache_key of the current (or last) invocation
    allowCache,    \* settings.allow_cache() of that invocation
    phases,        \* the phases that invocation has completed, in order
    lookupResult,  \* what cache_manager.lookup returned to that invocation
    measured,      \* binary_size measured by that invocation
    outcome,       \* how that invocation ended: "hit", "compiled", "failed"
    \* ---- CacheManager::fingerprint (src/src/cache/manager.rs)
    fpInputs,      \* CompilationInputs::all_files(): primary, then imports
    fpData,        \* fpData[f]: the bytes of input file f
    fpOptions,     \* CacheBuildOptions
    fpVersion,     \* compiler_version
    fpKey,         \* the CacheKey computed by the last fingerprint call
    fpLast,        \* what changed before that call
    \* ---- tokenize (src/src/lexer/tokenizer.rs)
    lxSource,      \* source, a sequence of characters
    lxOffset,      \* offset: how many characters the consumed chunks hold
    lxLineIdx,     \* line_idx of the next chunk
    lxTokens,      \* tokens (their kinds)
    lxIndentStack, \* indent_stack
    lxErrors,      \* errors (kind and line number)
    lxPc,          \* "idle", "lexing" (in the loop over chunks), "done"
    lxOut,         \* what it returned: Ok(tokens) or Err(errors)
    \* ---- statement lowering (src/src/codegen/llvm/compiler/stmt.rs)
    cgStmt,        \* the statement that is the body of the function
    cgBlocks,      \* the function's basic blocks: label, calls, terminator
    cgInsert,      \* the builder's insert block
    cgLoops,       \* ctx's stack of loop contexts (cond_bb, exit_bb)
    cgWork,        \* what is left to lower, innermost first
    cgPc,          \* "idle", "lowering", "done", "error"
    \* ---- program lowering and calls (src/src/codegen/llvm.rs)
    lpProgram,     \* program.functions: name and body (calls) of each
    lpIndex,       \* how many functions lower_program has lowered
    lpModule,      \* the names module.get_function finds
    lpCalls,       \* the calls built so far: caller, callee, kind
    lpPc,          \* "idle", "add", "body", "main", "done", "error"
    lpError,       \* the error lower_program returned, if any
    \* ---- try / panic (src/src/runtime/stdlib/builtins.rs)
    tryStack,      \* the otter_builtin_try calls in progress on the thread
    panicState,    \* PANIC_STATE of the thread: "none" or the message
    tryResults,    \* TRY_RESULTS: handle -> result and error
    tryErrors,     \* ERRORS: handle -> message, "none" if absent
    nextHandleId,  \* NEXT_HANDLE_ID
    tryHow,        \* handle -> how the callback of that try ended
    \* ---- channel entry points (src/src/runtime/stdlib/task.rs)
    regLock,       \* who holds the mutex of INT_CHANNELS, 0 if free
    regQueue,      \* channel handle -> the values sent and not yet received
    ffPc,          \* thread -> where it stands in send / recv
    ffHandle,      \* thread -> the channel handle of its call
    ffValue,       \* thread -> the value it sends or has received
    ffSent,        \* how many values have been sent in all
    \* ---- task entry points (src/src/runtime/stdlib/task.rs)
    thLock,        \* who holds the mutex of TASK_HANDLES, NoActor if free
    thHandles,     \* the task ids TASK_HANDLES holds a JoinHandle for
    thState,       \* task -> "unspawned", "running", "completed"
    thPc,          \* thread (main or task) -> where it stands in an entry point
    thArg,         \* thread -> the handle of its call
    \* ---- a second compiler process looking a key up (src/src/cache/manager.rs)
    rdKey,         \* the key of its last lookup
    rdResult,      \* "none", "miss", "hit", "error"
    rdSaw,          \* what the files were when it looked
    \* ---- JIT function cache (src/src/runtime/jit/cache/function_cache.rs)
    fcCache,          \* cache: key -> size of the cached function, NoFunction if absent
    access_order,     \* LruEvictionPolicy::access_order
    current_size_bytes,
    fcCacheWriter,    \* the thread holding cache.write(), NoThread if none
    fcCacheReaders,   \* the threads holding cache.read()
    fcPolicyWriter,   \* the thread holding eviction_policy.write(), NoThread if none
    fcPc,             \* thread -> where it stands in get / put
    fcFrame,          \* thread -> key, function_size, current_size, evict_key of its call
    fcCalls,          \* how many get / put calls have been made in all
    fcOverflowChecks  \* whether the build panics on usize overflow (else it wraps)

schedVars == <<shutdown, nextTaskId, userTasks, injector, local, wpc, frame, via,
               stealIdx, invoked, funcDone, completed, joinLock, jpc, jtarget,
               mSpawned, mCompleted, mWaiting,
               waiters, pollTarget, pollLast, pollPending, wakes>>

\* The variables of the JoinFutures.
pollVars == <<waiters, pollTarget, pollLast, pollPending, wakes>>

chanVars == <<chQueue, chHandles, chRawSenders, chPc, chLast, chSent, chRecvd,
              chBacklog>>

cacheVars == <<metaFile, binFile, objFile, cpc, ckey, allowCache, phases,
               lookupResult, measured, outcome>>

fpVars == <<fpInputs, fpData, fpOptions, fpVersion, fpKey, fpLast>>

lexVars == <<lxSource, lxOffset, lxLineIdx, lxTokens, lxIndentStack, lxErrors,
             lxPc, lxOut>>

lowerVars == <<cgStmt, cgBlocks, cgInsert, cgLoops, cgWork, cgPc>>

progVars == <<lpProgram, lpIndex, lpModule, lpCalls, lpPc, lpError>>

tryVars == <<tryStack, panicState, tryResults, tryErrors, nextHandleId, tryHow>>

ffiChanVars == <<regLock, regQueue, ffPc, ffHandle, ffValue, ffSent>>

ffiTaskVars == <<thLock, thHandles, thState, thPc, thArg>>

readerVars == <<rdKey, rdResult, rdSaw>>

fcVars == <<fcCache, access_order, current_size_bytes, fcCacheWriter,
            fcCacheReaders, fcPolicyWriter, fcPc, fcFrame, fcCalls,
            fcOverflowChecks>>

vars ==
    <<schedVars, chanVars, cacheVars, fpVars, lexVars, lowerVars, progVars, tryVars, ffiChanVars, ffiTaskVars, readerVars, fcVars>>

\* Variables of the other subsystems, left unchanged by a subsystem's actions.
notSched ==
    <<chanVars, cacheVars, fpVars, lexVars, lowerVars, progVars, tryVars, ffiChanVars, ffiTaskVars, readerVars, fcVars>>
notChan ==
    <<schedVars, cacheVars, fpVars, lexVars, lowerVars, progVars, tryVars, ffiChanVars, ffiTaskVars, readerVars, fcVars>>
notCache ==
    <<schedVars, chanVars, fpVars, lexVars, lowerVars, progVars, tryVars, ffiChanVars, ffiTaskVars, readerVars, fcVars>>
notFp ==
    <<schedVars, chanVars, cacheVars, lexVars, lowerVars, progVars, tryVars, ffiChanVars, ffiTaskVars, readerVars, fcVars>>
notLex ==
    <<schedVars, chanVars, cacheVars, fpVars, lowerVars, progVars, tryVars, ffiChanVars, ffiTaskVars, readerVars, fcVars>>
notLower ==
    <<schedVars, chanVars, cacheVars, fpVars, lexVars, progVars, tryVars, ffiChanVars, ffiTaskVars, readerVars, fcVars>>
notProg ==
    <<schedVars, chanVars, cacheVars, fpVars, lexVars, lowerVars, tryVars, ffiChanVars, ffiTaskVars, readerVars, fcVars>>
notTry ==
    <<schedVars, chanVars, cacheVars, fpVars, lexVars, lowerVars, progVars, ffiChanVars, ffiTaskVars, readerVars, fcVars>>
notFfiChan ==
    <<schedVars, chanVars, cacheVars, fpVars, lexVars, lowerVars, progVars, tryVars, ffiTaskVars, readerVars, fcVars>>
notFfiTask ==
    <<schedVars, chanVars, cacheVars, fpVars, lexVars, lowerVars, progVars, tryVars, ffiChanVars, readerVars, fcVars>>
notReader ==
    <<schedVars, chanVars, cacheVars, fpVars, lexVars, lowerVars, progVars, tryVars, ffiChanVars, ffiTaskVars, fcVars>>
notFc ==
    <<schedVars, chanVars, cacheVars, fpVars, lexVars, lowerVars, progVars, tryVars, ffiChanVars, ffiTaskVars, readerVars>>

(***************************************************************************)
(* Helpers.                                                                *)
(***************************************************************************)
\* How many positions of sequence s hold x.
Occurrences(s, x) == Cardinality({i \in 1..Len(s) : s[i] = x})

\* The holder id of a JoinState mutex held by client j (0 is free).
JoinerHolder(j) == j

(***************************************************************************)
(* Scheduler: initial state (TaskScheduler::new, JoinState::new,           *)
(* TaskRuntimeMetrics::default).                                           *)
(***************************************************************************)
SchedInit ==
    /\ shutdown = FALSE
    /\ nextTaskId = 1
    /\ userTasks = {}
    /\ injector = <<>>
    /\ local = [w \in Workers |-> <<>>]
    /\ wpc = [w \in Workers |-> "top"]
    /\ frame = [w \in Workers |-> NoTask]
    /\ via = [w \in Workers |-> "none"]
    /\ stealIdx = [w \in Workers |-> 1]
    /\ invoked = [t \in TaskIds |-> 0]
    /\ funcDone = [t \in TaskIds |-> FALSE]
    /\ completed = [t \in TaskIds |-> FALSE]
    /\ joinLock = [t \in TaskIds |-> 0]
    /\ jpc = [j \in Joiners |-> "idle"]
    /\ jtarget = [j \in Joiners |-> NoTask]
    /\ mSpawned = 0
    /\ mCompleted = 0
    /\ mWaiting = 0
    /\ waiters = [t \in TaskIds |-> <<>>]
    /\ pollTarget = [p \in Pollers |-> NoTask]
    /\ pollLast = [p \in Pollers |-> "none"]
    /\ pollPending = [p \in Pollers |-> 0]
    /\ wakes = [p \in Pollers |-> 0]

\* TaskChannel::with_metrics: `unbounded()`, one handle, held by thread 1.
ChanInit ==
    /\ chQueue = <<>>
    /\ chHandles = {1}
    /\ chRawSenders = {}
    /\ chPc = [p \in Procs |-> "idle"]
    /\ chLast = [p \in Procs |-> NoResult]
    /\ chSent = <<>>
    /\ chRecvd = <<>>
    /\ chBacklog = 0

\* The compiler version string that compile_pipeline fingerprints and records.
VERSION == "otter-version"

\* serde_yaml's text for a u64: its decimal digits, most significant first.
RECURSIVE Decimal(_)
Decimal(n) == IF n < 10 THEN <<n>> ELSE Append(Decimal(n \div 10), n % 10)

\* serde_yaml's reading of a u64 from its decimal digits.
RECURSIVE ParseDecimal(_)
ParseDecimal(ds) ==
    IF ds = <<>> THEN 0
    ELSE 10 * ParseDecimal(SubSeq(ds, 1, Len(ds) - 1)) + ds[Len(ds)]

\* The file at metadata_path(k): absent, or present; a present file either
\* deserialises into a CacheMetadata (parses) or does not. A document that
\* parses holds the recorded binary_path (the key whose binary_path() it is),
\* the text of binary_size and the compiler_version string.
NoMetadata ==
    [exists |-> FALSE, parses |-> FALSE, binary_path |-> 1, binary_size |-> <<>>,
     compiler_version |-> ""]
TruncatedMetadata ==
    [exists |-> TRUE, parses |-> FALSE, binary_path |-> 1, binary_size |-> <<>>,
     compiler_version |-> ""]

\* CacheMetadata::new as compile_pipeline calls it: the in-memory record.
CacheMetadataNew(path, size) ==
    [binary_path |-> path, binary_size |-> size, compiler_version |-> VERSION]

\* Mutant of write_to_yaml: only the last digit of binary_size is written.
write_to_yaml_last_digit(m) ==
    [exists |-> TRUE, parses |-> TRUE, binary_path |-> m.binary_path,
     binary_size |-> <<m.binary_size % 10>>,
     compiler_version |-> m.compiler_version]

\* CacheMetadata::write_to_yaml: the document written for metadata m.
write_to_yaml(m) ==
    [exists |-> TRUE, parses |-> TRUE, binary_path |-> m.binary_path,
     binary_size |-> Decimal(m.binary_size),
     compiler_version |-> m.compiler_version]

\* CacheMetadata::read_from_yaml on a document that parses.
read_from_yaml(f) ==
    [binary_path |-> f.binary_path, binary_size |-> ParseDecimal(f.binary_size),
     compiler_version |-> f.compiler_version]

\* CacheManager::new on an empty cache root: ensure_structure creates the two
\* directories; no invocation has run.
CacheInit ==
    /\ metaFile = [k \in Keys |-> NoMetadata]
    /\ binFile = [k \in Keys |-> NoFile]
    /\ objFile = [k \in Keys |-> FALSE]
    /\ cpc = "idle"
    /\ ckey = 1
    /\ allowCache = TRUE
    /\ phases = <<>>
    /\ lookupResult = "none"
    /\ measured = NoFile
    /\ outcome = "none"

\* fs::canonicalize: the symlink resolves to file 1.
canonicalise(p) == IF p > NumFiles THEN 1 ELSE p

\* Mutant of Sort: `files.sort()` is missing.
SortMissing(s) == s

\* Vec::sort, as an insertion sort.
RECURSIVE Insert(_, _)
Insert(x, s) ==
    IF s = <<>> THEN <<x>>
    ELSE IF x <= Head(s) THEN <<x>> \o s
    ELSE <<Head(s)>> \o Insert(x, Tail(s))

RECURSIVE SortFrom(_)
SortFrom(s) == IF s = <<>> THEN <<>> ELSE Insert(Head(s), SortFrom(Tail(s)))

Sort(s) == SortFrom(s)

\* Vec::dedup: consecutive repeated elements are removed.
RECURSIVE Dedup(_)
Dedup(s) ==
    IF Len(s) <= 1 THEN s
    ELSE IF s[1] = s[2] THEN Dedup(Tail(s))
    ELSE <<s[1]>> \o Dedup(Tail(s))

\* Sha1 over a byte stream, taken to be free of collisions: the digest
\* stands for the stream it was computed from.
Sha1(stream) == <<"sha1(">> \o stream \o <<")">>

\* path.to_string_lossy().as_bytes() of a canonical path.
PathBytes(f) == <<"/", ToString(f)>>

\* `{}` of a bool in format!.
BoolText(b) == IF b THEN "true" ELSE "false"

\* CacheBuildOptions::fingerprint.
OptionsFingerprint(o) ==
    <<"release=", BoolText(o.release), "::lto=", BoolText(o.lto),
      "::emit_ir=", BoolText(o.emit_ir)>>

\* `for (path, digest) in file_hashes { update(path); update(digest) }`.
RECURSIVE FileStream(_, _)
FileStream(files, data) ==
    IF files = <<>> THEN <<>>
    ELSE PathBytes(Head(files)) \o Sha1(data[Head(files)])
         \o FileStream(Tail(files), data)

\* The canonical paths fingerprint hashes, in hashing order.
HashedFiles(inputs) ==
    Dedup(Sort([i \in 1..Len(inputs) |-> canonicalise(inputs[i])]))

\* Mutant of fingerprint: the compiler version is not hashed.
fingerprintNoVersion(inputs, data, options, version) ==
    Sha1(FileStream(HashedFiles(inputs), data) \o OptionsFingerprint(options))

\* CacheManager::fingerprint.
fingerprint(inputs, data, options, version) ==
    Sha1(FileStream(HashedFiles(inputs), data) \o OptionsFingerprint(options)
         \o <<version>>)

\* A first fingerprint call: one input, all bytes "0", a debug build.
FpInit ==
    /\ fpInputs = <<1>>
    /\ fpData = [f \in Files |-> [i \in 1..FileLen |-> "0"]]
    /\ fpOptions = [release |-> FALSE, lto |-> FALSE, emit_ir |-> FALSE]
    /\ fpVersion = "otter-version"
    /\ fpKey = fingerprint(<<1>>, [f \in Files |-> [i \in 1..FileLen |-> "0"]],
                           [release |-> FALSE, lto |-> FALSE, emit_ir |-> FALSE],
                           "otter-version")
    /\ fpLast = "none"

\* The characters of the sources: space, tab, a letter, the double quote, a
\* character no token starts with, the comment sign; "NL" is the line feed.
IndentTexts == {<<>>, <<"SP">>, <<"SP", "SP">>, <<"TAB">>}
BodyTexts ==
    {<<>>, <<"a">>, <<"#">>, <<"$">>, <<"Q", "a">>, <<"Q", "a", "Q">>}

\* The lines a source is made of, without their line feed.
LineTexts == {ind \o body : ind \in IndentTexts, body \in BodyTexts}

\* The lines ls, each followed by a line feed, the last one only if `last`.
RECURSIVE JoinLines(_, _)
JoinLines(ls, last) ==
    IF ls = <<>> THEN <<>>
    ELSE IF Len(ls) = 1 THEN Head(ls) \o (IF last THEN <<"NL">> ELSE <<>>)
    ELSE Head(ls) \o <<"NL">> \o JoinLines(Tail(ls), last)

\* The sources handed to tokenize.
Sources ==
    {JoinLines(ls, last) :
        ls \in UNION {[1..n -> LineTexts] : n \in 0..MaxLines}, last \in BOOLEAN}

\* Before tokenize is called.
LexInit ==
    /\ lxSource = <<>>
    /\ lxOffset = 0
    /\ lxLineIdx = 0
    /\ lxTokens = <<>>
    /\ lxIndentStack = <<0>>
    /\ lxErrors = <<>>
    /\ lxPc = "idle"
    /\ lxOut = [ok |-> FALSE, tokens |-> <<>>, errors |-> <<>>]

\* A statement: its kind, the blocks it holds (for If: the then-block, the
\* elif blocks in order, the else-block if hasElse; for For: the body).
Simple(kind) == [kind |-> kind, blocks |-> <<>>, hasElse |-> FALSE]

SimpleStmts == {Simple(k) : k \in {"Expr", "Return", "Break", "Continue"}}

\* Blocks of one simple statement.
ArmBlocks == {<<st>> : st \in SimpleStmts}

\* If statements with up to MaxElifs elif arms, with and without else.
IfStmts ==
    {[kind |-> "If", blocks |-> bs, hasElse |-> e] :
        bs \in UNION {[1..n -> ArmBlocks] : n \in 1..(MaxElifs + 1)},
        e \in {FALSE}}
    \cup
    {[kind |-> "If", blocks |-> bs, hasElse |-> e] :
        bs \in UNION {[1..n -> ArmBlocks] : n \in 2..(MaxElifs + 2)},
        e \in {TRUE}}

\* For loops over a collection whose body is a simple statement or an If.
ForStmts ==
    {[kind |-> "For", blocks |-> <<b>>, hasElse |-> FALSE] :
        b \in ArmBlocks \cup {<<st>> : st \in IfStmts}}

\* The function bodies that are lowered.
Bodies == IfStmts \cup ForStmts

NoTerminator == [op |-> "none", targets |-> <<>>]

BasicBlock(label) == [label |-> label, calls |-> <<>>, term |-> NoTerminator]

\* Before a function is lowered.
LowerInit ==
    /\ cgStmt = Simple("Pass")
    /\ cgBlocks = <<>>
    /\ cgInsert = 0
    /\ cgLoops = <<>>
    /\ cgWork = <<>>
    /\ cgPc = "idle"

\* The names of the functions a program may define, and a name that nothing
\* defines.
FnNames == SubSeq(<<"main", "f", "g", "h">>, 1, NumFns)

UndefinedName == "nowhere"

\* The symbol registry: canonical names and the number of parameters of
\* their signatures.
RegistryParams == [n \in {"std.io.println"} |-> 1]

\* symbol_registry.resolve(name).is_some()
Resolves(name) == name \in DOMAIN RegistryParams

\* A function body: no call, or one call of a name with some arguments.
CallExprs ==
    [callee : {FnNames[i] : i \in 1..NumFns} \cup DOMAIN RegistryParams \cup {UndefinedName},
     args : 0..MaxArgs]

FnBodies == {<<>>} \cup {<<c>> : c \in CallExprs}

\* Sequences of distinct function names.
NameLists ==
    {ns \in UNION {[1..n -> {FnNames[i] : i \in 1..NumFns}] : n \in 0..NumFns} :
        \A i, j \in 1..Len(ns) : i # j => ns[i] # ns[j]}

\* The programs handed to lower_program.
Programs ==
    UNION {{[i \in 1..Len(ns) |-> [name |-> ns[i], body |-> bodies[i]]] :
                bodies \in [1..Len(ns) -> FnBodies]} : ns \in NameLists}

NoError == [kind |-> "none", name |-> ""]

\* Before lower_program is called: an empty module.
ProgInit ==
    /\ lpProgram = <<>>
    /\ lpIndex = 0
    /\ lpModule = {}
    /\ lpCalls = <<>>
    /\ lpPc = "idle"
    /\ lpError = NoError

\* The handle ids the tries and their errors may take.
HandleIds == 1..(2 * MaxTries)

\* No entry in TRY_RESULTS for a handle.
NoTryResult == [present |-> FALSE, has_result |-> FALSE, result |-> "", error |-> 0]

\* TryResult { result, error }; error 0 stands for None.
TryResult(has_result, result, error) ==
    [present |-> TRUE, has_result |-> has_result, result |-> result, error |-> error]

\* The runtime before any try.
TryInit ==
    /\ tryStack = <<>>
    /\ panicState = "none"
    /\ tryResults = [h \in HandleIds |-> NoTryResult]
    /\ tryErrors = [h \in HandleIds |-> "none"]
    /\ nextHandleId = 1
    /\ tryHow = [h \in HandleIds |-> "none"]

\* The threads that call the channel entry points and the handles of the
\* channels of one element type, created beforehand.
FfiThreads == 1..NumFfiThreads

ChanHandles == 1..NumChans

\* Channels exist and are empty, nobody is in a call.
FfiChanInit ==
    /\ regLock = 0
    /\ regQueue = [h \in ChanHandles |-> <<>>]
    /\ ffPc = [t \in FfiThreads |-> "idle"]
    /\ ffHandle = [t \in FfiThreads |-> 1]
    /\ ffValue = [t \in FfiThreads |-> 0]
    /\ ffSent = 0

\* The tasks that may be spawned; the threads that call the entry points are
\* the main thread and the threads running the tasks' callbacks.
FfiTasks == 1..NumFfiTasks

MainThread == 0

Actors == {MainThread} \cup FfiTasks

NoActor == 0 - 1

\* No task spawned, nobody in a call.
FfiTaskInit ==
    /\ thLock = NoActor
    /\ thHandles = {}
    /\ thState = [t \in FfiTasks |-> "unspawned"]
    /\ thPc = [a \in Actors |-> "idle"]
    /\ thArg = [a \in Actors |-> 1]

\* The artifact while the linker is writing it: fewer bytes than any
\* finished artifact has.
PartialFile == 1

\* The second process has not looked anything up.
ReaderInit ==
    /\ rdKey = 1
    /\ rdResult = "none"
    /\ rdSaw = [metadata_half_written |-> FALSE, artifact_being_written |-> FALSE]

\* The threads sharing one FunctionCache, and no thread.
FcThreads == 1..NumFcThreads
NoThread == 0
\* SpecializationKey values, and Option::None of a key.
FcKeys == 1..NumFcKeys
NoKey == 0
\* code.len() of a compiled function; the size recorded for an absent key.
CodeLens == 1..MaxCodeLen
NoFunction == 0
\* usize values are taken modulo this.
UsizeModulus == 2 ^ UsizeBits

\* FunctionCache::new: an empty map, an empty access order, size 0.
FcInit ==
    /\ fcCache = [k \in FcKeys |-> NoFunction]
    /\ access_order = <<>>
    /\ current_size_bytes = 0
    /\ fcCacheWriter = NoThread
    /\ fcCacheReaders = {}
    /\ fcPolicyWriter = NoThread
    /\ fcPc = [a \in FcThreads |-> "idle"]
    /\ fcFrame = [a \in FcThreads |->
                    [key |-> 1, function_size |-> 1, current_size |-> 0,
                     evict_key |-> NoKey]]
    /\ fcCalls = 0
    /\ fcOverflowChecks = FALSE

\* Every subsystem starts in its initial state.
Init == SchedInit /\ ChanInit /\ CacheInit /\ FpInit /\ LexInit /\ LowerInit /\ ProgInit /\ TryInit /\ FfiChanInit /\ FfiTaskInit /\ ReaderInit /\ FcInit

\* Mutant of Siblings: the filter keeps the worker's own stealer (`i == index`).
SiblingsOwnOnly(w) == [i \in 1..(NumWorkers - 1) |-> w]

\* The stealers worker w iterates over: every worker but itself, in index order.
Siblings(w) ==
    LET others == {v \in Workers : v # w}
        nth[i \in 1..Cardinality(others)] ==
            CHOOSE v \in others : Cardinality({u \in others : u < v}) = i - 1
    IN nth

(***************************************************************************)
(* TaskScheduler::spawn_fn: a fresh task, the spawn metrics, a push onto   *)
(* the injector. There is no check of the shutdown flag.                   *)
(***************************************************************************)
SpawnFn ==
    /\ mSpawned < MaxTasks
    /\ nextTaskId' = nextTaskId + 1
    /\ userTasks' = userTasks \cup {nextTaskId}
    /\ mSpawned' = mSpawned + 1
    /\ mWaiting' = mWaiting + 1
    /\ injector' = Append(injector, nextTaskId)
    /\ UNCHANGED <<shutdown, local, wpc, frame, via, stealIdx, invoked, funcDone,
                   completed, joinLock, jpc, jtarget, mCompleted>>
    /\ UNCHANGED <<pollVars, notSched>>

(***************************************************************************)
(* TaskScheduler::shutdown: the first call sets the flag and pushes one    *)
(* no-op task per worker; later calls change nothing.                      *)
(***************************************************************************)
Shutdown ==
    /\ ~shutdown
    /\ shutdown' = TRUE
    /\ injector' = injector \o [i \in 1..NumWorkers |-> nextTaskId + i - 1]
    /\ nextTaskId' = nextTaskId + NumWorkers
    /\ UNCHANGED <<userTasks, local, wpc, frame, via, stealIdx, invoked, funcDone,
                   completed, joinLock, jpc, jtarget, mSpawned,
                   mCompleted, mWaiting>>
    /\ UNCHANGED <<pollVars, notSched>>

(***************************************************************************)
(* worker_loop.                                                            *)
(***************************************************************************)
\* Task::run's first half: the worker holds the task, sets Running and calls
\* the callable (func.take() then func()).
TakeAndInvoke(w, t, branch) ==
    /\ frame' = [frame EXCEPT ![w] = t]
    /\ via' = [via EXCEPT ![w] = branch]
    /\ invoked' = [invoked EXCEPT ![t] = @ + 1]
    /\ wpc' = [wpc EXCEPT ![w] = "run"]

\* `if core.shutdown.load() { break; }`
WorkerCheckShutdown(w) ==
    /\ wpc[w] = "top"
    /\ wpc' = [wpc EXCEPT ![w] = IF shutdown THEN "exited" ELSE "pop"]
    /\ UNCHANGED <<shutdown, nextTaskId, userTasks, injector, local, frame, via,
                   stealIdx, invoked, funcDone, completed, joinLock, jpc, jtarget,
                   mSpawned, mCompleted, mWaiting>>
    /\ UNCHANGED <<pollVars, notSched>>

\* `if let Some(task) = local.pop()`: the front of the worker's FIFO deque.
WorkerPopLocal(w) ==
    /\ wpc[w] = "pop"
    /\ IF local[w] # <<>>
         THEN /\ TakeAndInvoke(w, Head(local[w]), "local")
              /\ local' = [local EXCEPT ![w] = Tail(@)]
         ELSE /\ wpc' = [wpc EXCEPT ![w] = "inject"]
              /\ UNCHANGED <<local, frame, via, invoked>>
    /\ UNCHANGED <<shutdown, nextTaskId, userTasks, injector, stealIdx, funcDone,
                   completed, joinLock, jpc, jtarget, mSpawned,
                   mCompleted, mWaiting>>
    /\ UNCHANGED <<pollVars, notSched>>

\* injector.steal_batch_and_pop(&local) = Steal::Success: a batch of n tasks
\* leaves the injector, its first is returned, the rest go to the local deque.
StealInjectorSuccess(w) ==
    /\ wpc[w] = "inject"
    /\ injector # <<>>
    /\ \E n \in 1..Len(injector) :
          /\ TakeAndInvoke(w, Head(injector), "injector")
          /\ local' = [local EXCEPT ![w] = @ \o SubSeq(injector, 2, n)]
          /\ injector' = SubSeq(injector, n + 1, Len(injector))
    /\ UNCHANGED <<shutdown, nextTaskId, userTasks, stealIdx, funcDone, completed,
                   joinLock, jpc, jtarget, mSpawned, mCompleted, mWaiting>>
    /\ UNCHANGED <<pollVars, notSched>>

\* Steal::Retry (the steal lost a race): backoff.spin() and `continue`.
StealInjectorRetry(w) ==
    /\ wpc[w] = "inject"
    /\ injector # <<>>
    /\ wpc' = [wpc EXCEPT ![w] = "top"]
    /\ UNCHANGED <<shutdown, nextTaskId, userTasks, injector, local, frame, via,
                   stealIdx, invoked, funcDone, completed, joinLock, jpc, jtarget,
                   mSpawned, mCompleted, mWaiting>>
    /\ UNCHANGED <<pollVars, notSched>>

\* Steal::Empty: fall through to the sibling stealers.
StealInjectorEmpty(w) ==
    /\ wpc[w] = "inject"
    /\ injector = <<>>
    /\ wpc' = [wpc EXCEPT ![w] = IF NumWorkers > 1 THEN "steal" ELSE "top"]
    /\ stealIdx' = [stealIdx EXCEPT ![w] = 1]
    /\ UNCHANGED <<shutdown, nextTaskId, userTasks, injector, local, frame, via,
                   invoked, funcDone, completed, joinLock, jpc, jtarget,
                   mSpawned, mCompleted, mWaiting>>
    /\ UNCHANGED <<pollVars, notSched>>

\* Mutant of StealSiblingSuccess: the stolen task stays in the victim's deque.
StealSiblingCopies(w) ==
    /\ wpc[w] = "steal"
    /\ LET v == Siblings(w)[stealIdx[w]] IN
          /\ local[v] # <<>>
          /\ TakeAndInvoke(w, Head(local[v]), "sibling")
          /\ UNCHANGED local
    /\ UNCHANGED <<shutdown, nextTaskId, userTasks, injector, stealIdx, funcDone,
                   completed, joinLock, jpc, jtarget, mSpawned,
                   mCompleted, mWaiting>>
    /\ UNCHANGED <<pollVars, notSched>>

\* stealer.steal() = Steal::Success on the current sibling: `stolen = Some(task)`,
\* then `task.run()`.
StealSiblingSuccess(w) ==
    /\ wpc[w] = "steal"
    /\ LET v == Siblings(w)[stealIdx[w]] IN
          /\ local[v] # <<>>
          /\ TakeAndInvoke(w, Head(local[v]), "sibling")
          /\ local' = [local EXCEPT ![v] = Tail(@)]
    /\ UNCHANGED <<shutdown, nextTaskId, userTasks, injector, stealIdx, funcDone,
                   completed, joinLock, jpc, jtarget, mSpawned,
                   mCompleted, mWaiting>>
    /\ UNCHANGED <<pollVars, notSched>>

\* stealer.steal() = Steal::Retry: `stolen = None; break`; the worker backs off
\* (snooze or a 100 microsecond sleep) and starts the next iteration.
StealSiblingRetry(w) ==
    /\ wpc[w] = "steal"
    /\ local[Siblings(w)[stealIdx[w]]] # <<>>
    /\ wpc' = [wpc EXCEPT ![w] = "top"]
    /\ UNCHANGED <<shutdown, nextTaskId, userTasks, injector, local, frame, via,
                   stealIdx, invoked, funcDone, completed, joinLock, jpc, jtarget,
                   mSpawned, mCompleted, mWaiting>>
    /\ UNCHANGED <<pollVars, notSched>>

\* stealer.steal() = Steal::Empty: `continue` with the next sibling, or leave
\* the loop with nothing stolen, back off and start the next iteration.
StealSiblingEmpty(w) ==
    /\ wpc[w] = "steal"
    /\ local[Siblings(w)[stealIdx[w]]] = <<>>
    /\ IF stealIdx[w] < NumWorkers - 1
         THEN /\ stealIdx' = [stealIdx EXCEPT ![w] = @ + 1]
              /\ UNCHANGED wpc
         ELSE /\ wpc' = [wpc EXCEPT ![w] = "top"]
              /\ UNCHANGED stealIdx
    /\ UNCHANGED <<shutdown, nextTaskId, userTasks, injector, local, frame, via,
                   invoked, funcDone, completed, joinLock, jpc, jtarget,
                   mSpawned, mCompleted, mWaiting>>
    /\ UNCHANGED <<pollVars, notSched>>

(***************************************************************************)
(* Task::run, second half, and JoinState::mark_complete.                   *)
(***************************************************************************)
\* The callable returns: `func()` is over, `self.state = Completed`.
CallableReturn(w) ==
    /\ wpc[w] = "run"
    /\ funcDone' = [funcDone EXCEPT ![frame[w]] = TRUE]
    /\ via' = [via EXCEPT ![w] = "none"]
    /\ wpc' = [wpc EXCEPT ![w] = "mark"]
    /\ UNCHANGED <<shutdown, nextTaskId, userTasks, injector, local, frame,
                   stealIdx, invoked, completed, joinLock, jpc, jtarget,
                   mSpawned, mCompleted, mWaiting>>
    /\ UNCHANGED <<pollVars, notSched>>

\* mark_complete: `for waker in inner.waiters.drain(..) { waker.wake() }`.
WakeWaiters(t) ==
    /\ waiters' = [waiters EXCEPT ![t] = <<>>]
    /\ wakes' = [p \in Pollers |-> wakes[p] + Occurrences(waiters[t], p)]
    /\ UNCHANGED <<pollTarget, pollLast, pollPending>>

\* condvar.notify_all(): every client parked on task t's condvar is unparked.
NotifyAll(t) ==
    [j \in Joiners |-> IF jtarget[j] = t /\ jpc[j] = "waiting" THEN "woken" ELSE jpc[j]]

\* Mutant of MarkComplete: `completed = true` without condvar.notify_all().
MarkCompleteNoNotify(w) ==
    /\ wpc[w] = "mark"
    /\ joinLock[frame[w]] = 0
    /\ completed' = [completed EXCEPT ![frame[w]] = TRUE]
    /\ frame' = [frame EXCEPT ![w] = NoTask]
    /\ wpc' = [wpc EXCEPT ![w] = "record"]
    /\ UNCHANGED <<shutdown, nextTaskId, userTasks, injector, local, via, stealIdx,
                   invoked, funcDone, joinLock, jpc, jtarget, mSpawned, mCompleted,
                   mWaiting>>
    /\ WakeWaiters(frame[w])
    /\ UNCHANGED notSched

\* Mutant of MarkComplete: Task::run signals the JoinState before the callable
\* has returned (mark_complete ahead of func()).
MarkCompleteEarly(w) ==
    /\ wpc[w] \in {"run", "mark"}
    /\ joinLock[frame[w]] = 0
    /\ completed' = [completed EXCEPT ![frame[w]] = TRUE]
    /\ jpc' = NotifyAll(frame[w])
    /\ frame' = [frame EXCEPT ![w] = NoTask]
    /\ wpc' = [wpc EXCEPT ![w] = "record"]
    /\ UNCHANGED <<shutdown, nextTaskId, userTasks, injector, local, via, stealIdx,
                   invoked, funcDone, joinLock, jtarget, mSpawned, mCompleted,
                   mWaiting>>
    /\ WakeWaiters(frame[w])
    /\ UNCHANGED notSched

\* Mutant of MarkComplete: the registered wakers are dropped, not woken.
MarkCompleteNoWake(w) ==
    /\ wpc[w] = "mark"
    /\ joinLock[frame[w]] = 0
    /\ completed' = [completed EXCEPT ![frame[w]] = TRUE]
    /\ jpc' = NotifyAll(frame[w])
    /\ frame' = [frame EXCEPT ![w] = NoTask]
    /\ wpc' = [wpc EXCEPT ![w] = "record"]
    /\ waiters' = [waiters EXCEPT ![frame[w]] = <<>>]
    /\ UNCHANGED <<shutdown, nextTaskId, userTasks, injector, local, via, stealIdx,
                   invoked, funcDone, joinLock, jtarget, mSpawned, mCompleted,
                   mWaiting, pollTarget, pollLast, pollPending, wakes>>
    /\ UNCHANGED notSched

\* mark_complete: lock inner (possible when no client holds the lock), set
\* `completed = true`, notify_all, unlock. The task is dropped when run returns.
MarkComplete(w) ==
    /\ wpc[w] = "mark"
    /\ joinLock[frame[w]] = 0
    /\ completed' = [completed EXCEPT ![frame[w]] = TRUE]
    /\ jpc' = NotifyAll(frame[w])
    /\ frame' = [frame EXCEPT ![w] = NoTask]
    /\ wpc' = [wpc EXCEPT ![w] = "record"]
    /\ UNCHANGED <<shutdown, nextTaskId, userTasks, injector, local, via, stealIdx,
                   invoked, funcDone, joinLock, jtarget, mSpawned, mCompleted,
                   mWaiting>>
    /\ WakeWaiters(frame[w])
    /\ UNCHANGED notSched

\* core.metrics.record_completion(); `continue`.
RecordCompletion(w) ==
    /\ wpc[w] = "record"
    /\ mCompleted' = mCompleted + 1
    /\ mWaiting' = mWaiting - 1
    /\ wpc' = [wpc EXCEPT ![w] = "top"]
    /\ UNCHANGED <<shutdown, nextTaskId, userTasks, injector, local, frame, via,
                   stealIdx, invoked, funcDone, completed, joinLock, jpc, jtarget,
                   mSpawned>>
    /\ UNCHANGED <<pollVars, notSched>>

(***************************************************************************)
(* JoinHandle::join (JoinState::wait_blocking) and JoinHandle::is_finished.*)
(***************************************************************************)
\* A client calls join() on the handle of task t.
JoinBegin(j, t) ==
    /\ jpc[j] \in {"idle", "finished", "unfinished"}
    /\ t \in userTasks
    /\ jtarget' = [jtarget EXCEPT ![j] = t]
    /\ jpc' = [jpc EXCEPT ![j] = "lock"]
    /\ UNCHANGED <<shutdown, nextTaskId, userTasks, injector, local, wpc, frame,
                   via, stealIdx, invoked, funcDone, completed, joinLock,
                   mSpawned, mCompleted, mWaiting>>
    /\ UNCHANGED <<pollVars, notSched>>

\* `let mut inner = self.inner.lock()`, and the re-lock when condvar.wait wakes.
JoinLock(j) ==
    /\ jpc[j] \in {"lock", "woken"}
    /\ joinLock[jtarget[j]] = 0
    /\ joinLock' = [joinLock EXCEPT ![jtarget[j]] = JoinerHolder(j)]
    /\ jpc' = [jpc EXCEPT ![j] = "check"]
    /\ UNCHANGED <<shutdown, nextTaskId, userTasks, injector, local, wpc, frame,
                   via, stealIdx, invoked, funcDone, completed, jtarget,
                   mSpawned, mCompleted, mWaiting>>
    /\ UNCHANGED <<pollVars, notSched>>

\* `while !inner.completed { condvar.wait(&mut inner) }`: with the lock held,
\* either return (unlocking) or park on the condvar, which unlocks atomically.
JoinCheck(j) ==
    /\ jpc[j] = "check"
    /\ jpc' = [jpc EXCEPT ![j] = IF completed[jtarget[j]] THEN "returned" ELSE "waiting"]
    /\ joinLock' = [joinLock EXCEPT ![jtarget[j]] = 0]
    /\ UNCHANGED <<shutdown, nextTaskId, userTasks, injector, local, wpc, frame,
                   via, stealIdx, invoked, funcDone, completed, jtarget,
                   mSpawned, mCompleted, mWaiting>>
    /\ UNCHANGED <<pollVars, notSched>>

\* is_finished() on the handle of task t: `self.inner.lock().completed`, one
\* locked read; the client keeps the answer.
IsFinished(j, t) ==
    /\ jpc[j] \in {"idle", "finished", "unfinished"}
    /\ t \in userTasks
    /\ joinLock[t] = 0
    /\ jtarget' = [jtarget EXCEPT ![j] = t]
    /\ jpc' = [jpc EXCEPT ![j] = IF completed[t] THEN "finished" ELSE "unfinished"]
    /\ UNCHANGED <<shutdown, nextTaskId, userTasks, injector, local, wpc, frame,
                   via, stealIdx, invoked, funcDone, completed, joinLock,
                   mSpawned, mCompleted, mWaiting>>
    /\ UNCHANGED <<pollVars, notSched>>

WorkerStep(w) ==
    \/ WorkerCheckShutdown(w)
    \/ WorkerPopLocal(w)
    \/ StealInjectorSuccess(w)
    \/ StealInjectorRetry(w)
    \/ StealInjectorEmpty(w)
    \/ StealSiblingSuccess(w)
    \/ StealSiblingRetry(w)
    \/ StealSiblingEmpty(w)
    \/ MarkComplete(w)
    \/ RecordCompletion(w)

SchedNext ==
    \/ SpawnFn
    \/ Shutdown
    \/ \E w \in Workers : WorkerStep(w)
    \/ \E w \in Workers : CallableReturn(w)
    \/ \E j \in Joiners, t \in TaskIds : JoinBegin(j, t)
    \/ \E j \in Joiners : JoinLock(j)
    \/ \E j \in Joiners : JoinCheck(j)
    \/ \E j \in Joiners, t \in TaskIds : IsFinished(j, t)

SchedSpec == Init /\ [][SchedNext]_vars

\* Worker and client threads are OS threads and keep being scheduled; the
\* lock-free deques let a steal lose a race (Retry) only to a steal that wins,
\* so a steal that is possible again and again eventually succeeds. Nothing
\* forces a client to spawn, shut down or join, nor a callable to return.
SchedFairness ==
    /\ \A w \in Workers : WF_vars(WorkerStep(w))
    /\ \A w \in Workers : SF_vars(StealInjectorSuccess(w))
    /\ \A w \in Workers : SF_vars(StealSiblingSuccess(w))
    /\ \A j \in Joiners : WF_vars(JoinLock(j))
    /\ \A j \in Joiners : WF_vars(JoinCheck(j))

SchedLive == SchedSpec /\ SchedFairness

\* Client j is inside JoinHandle::join().
InJoin(j) == jpc[j] \in {"lock", "check", "waiting", "woken"}

\* Every worker is executing a callable.
AllBusy == \A w \in Workers : wpc[w] = "run"

(***************************************************************************)
(* C1. Once the callable of a task has returned, every client inside       *)
(* join() on that task (blocked on the condvar, about to block, or calling *)
(* join afterwards) eventually returns from join().                        *)
(***************************************************************************)
C1_JoinReturnsAfterCallable ==
    \A j \in Joiners :
        (InJoin(j) /\ funcDone[jtarget[j]]) ~> (jpc[j] = "returned")

\* A client that was parked on the condvar has been woken by mark_complete.
C1_Witness ==
    \E j \in Joiners : jpc[j] = "woken" /\ completed[jtarget[j]]


(***************************************************************************)
(* C2. While the scheduler is not shut down, a task submitted with         *)
(* spawn_fn does not stay queued: it is taken and its callable invoked     *)
(* unless every worker is busy running a callable, also when it sits in    *)
(* the local deque of a worker that never finishes its current callable;   *)
(* and if callables return, the task completes and join() on it returns.   *)
(***************************************************************************)
C2_SpawnedTaskRuns ==
    /\ \A t \in TaskIds :
          (t \in userTasks /\ ~shutdown) ~> (invoked[t] > 0 \/ shutdown \/ AllBusy)
    /\ (\A w \in Workers : WF_vars(CallableReturn(w))) =>
          /\ \A t \in TaskIds :
                (t \in userTasks /\ ~shutdown) ~> (completed[t] \/ shutdown)
          /\ \A j \in Joiners :
                (InJoin(j) /\ ~shutdown) ~> (jpc[j] = "returned" \/ shutdown)

\* An idle worker has stolen a task from the deque of a sibling that is still
\* running another callable.
C2_Witness ==
    \E w, v \in Workers :
        /\ w # v
        /\ wpc[w] = "run" /\ via[w] = "sibling"
        /\ wpc[v] = "run" /\ via[v] = "injector"
        /\ ~shutdown

(***************************************************************************)
(* C3. join() has returned, or is_finished() has answered true, only for a *)
(* task whose callable has finished executing.                             *)
(***************************************************************************)
C3_NoEarlyJoin ==
    \A j \in Joiners :
        jpc[j] \in {"returned", "finished"} => funcDone[jtarget[j]]

\* A join() has returned.
C3_Witness ==
    \E j \in Joiners : jpc[j] = "returned" /\ completed[jtarget[j]]

\* The places that hold task t: injector slots, local deque slots, frames.
InInjector(t) == Occurrences(injector, t)
InLocals(t) ==
    Cardinality({p \in UNION {{<<w, i>> : i \in 1..Len(local[w])} : w \in Workers} :
                    local[p[1]][p[2]] = t})
InFrames(t) == Cardinality({w \in Workers : frame[w] = t})
Holders(t) == InInjector(t) + InLocals(t) + InFrames(t)

(***************************************************************************)
(* C4. Every task that was created and is not yet dropped is held in       *)
(* exactly one place (the injector, one local deque, one worker's frame),  *)
(* a dropped or not yet created task in none, and no callable is invoked   *)
(* more than once.                                                         *)
(***************************************************************************)
C4_SingleOwner ==
    \A t \in TaskIds :
        /\ Holders(t) = (IF t < nextTaskId /\ ~completed[t] THEN 1 ELSE 0)
        /\ invoked[t] <= 1

\* A batch steal has left a task in a local deque and a sibling has stolen it
\* while the injector holds shutdown's no-op tasks.
C4_Witness ==
    \E w \in Workers :
        /\ frame[w] # NoTask /\ via[w] = "sibling" /\ invoked[frame[w]] = 1
        /\ injector # <<>>

(***************************************************************************)
(* TaskChannel<T>: one channel shared by the threads of Procs.             *)
(***************************************************************************)
\* The crossbeam Sender objects alive: the one inside ChannelInner, which lives
\* as long as any handle does, and the clones handed out by clone_sender.
SenderCount == (IF chHandles # {} THEN 1 ELSE 0) + Cardinality(chRawSenders)

\* Mutant of ReceiverTake: the receiver takes the newest message.
ReceiverTakeNewest(q) == <<q[Len(q)], SubSeq(q, 1, Len(q) - 1)>>

\* receiver.recv() / try_recv() on a non-empty queue: the oldest message and
\* the queue that remains.
ReceiverTake(q) == <<Head(q), Tail(q)>>

\* impl Clone for TaskChannel: thread q gets a handle from thread p.
CloneHandle(p, q) ==
    /\ p \in chHandles /\ q \notin chHandles
    /\ chPc[p] = "idle"
    /\ chHandles' = chHandles \cup {q}
    /\ UNCHANGED <<chQueue, chRawSenders, chPc, chLast, chSent, chRecvd, chBacklog>>
    /\ UNCHANGED notChan

\* Thread p drops its handle; the last drop destroys ChannelInner.
DropHandle(p) ==
    /\ p \in chHandles
    /\ chPc[p] = "idle"
    /\ chHandles' = chHandles \ {p}
    /\ UNCHANGED <<chQueue, chRawSenders, chPc, chLast, chSent, chRecvd, chBacklog>>
    /\ UNCHANGED notChan

\* clone_sender: thread p keeps a Sender of its own.
CloneSender(p) ==
    /\ p \in chHandles /\ p \notin chRawSenders
    /\ chPc[p] = "idle"
    /\ chRawSenders' = chRawSenders \cup {p}
    /\ UNCHANGED <<chQueue, chHandles, chPc, chLast, chSent, chRecvd, chBacklog>>
    /\ UNCHANGED notChan

\* Thread p drops the Sender it got from clone_sender.
DropSender(p) ==
    /\ p \in chRawSenders
    /\ chPc[p] = "idle"
    /\ chRawSenders' = chRawSenders \ {p}
    /\ UNCHANGED <<chQueue, chHandles, chPc, chLast, chSent, chRecvd, chBacklog>>
    /\ UNCHANGED notChan

\* TaskChannel::send: the backlog metric, then sender.send(value), which never
\* blocks on an unbounded channel.
ChanSend(p, v) ==
    /\ p \in chHandles
    /\ chPc[p] = "idle"
    /\ Len(chSent) < MaxSends
    /\ chBacklog' = chBacklog + 1
    /\ chQueue' = Append(chQueue, v)
    /\ chSent' = Append(chSent, v)
    /\ UNCHANGED <<chHandles, chRawSenders, chPc, chLast, chRecvd>>
    /\ UNCHANGED notChan

\* TaskChannel::recv is called: the thread enters receiver.recv().
RecvBegin(p) ==
    /\ p \in chHandles
    /\ chPc[p] = "idle"
    /\ chPc' = [chPc EXCEPT ![p] = "recv"]
    /\ UNCHANGED <<chQueue, chHandles, chRawSenders, chLast, chSent, chRecvd,
                   chBacklog>>
    /\ UNCHANGED notChan

\* receiver.recv() returns: Ok(value) when a message is there, Err when the
\* queue is empty and no Sender is left; otherwise the thread stays blocked.
RecvReturn(p) ==
    /\ chPc[p] = "recv"
    /\ chQueue # <<>> \/ SenderCount = 0
    /\ IF chQueue # <<>>
         THEN /\ chLast' = [chLast EXCEPT ![p] = ReceiverTake(chQueue)[1]]
              /\ chRecvd' = Append(chRecvd, ReceiverTake(chQueue)[1])
              /\ chQueue' = ReceiverTake(chQueue)[2]
              /\ chBacklog' = chBacklog - 1
         ELSE /\ chLast' = [chLast EXCEPT ![p] = Absent]
              /\ UNCHANGED <<chQueue, chRecvd, chBacklog>>
    /\ chPc' = [chPc EXCEPT ![p] = "idle"]
    /\ UNCHANGED <<chHandles, chRawSenders, chSent>>
    /\ UNCHANGED notChan

\* TaskChannel::try_recv: Some(value), or None on Empty and on Disconnected.
TryRecv(p) ==
    /\ p \in chHandles
    /\ chPc[p] = "idle"
    /\ IF chQueue # <<>>
         THEN /\ chLast' = [chLast EXCEPT ![p] = ReceiverTake(chQueue)[1]]
              /\ chRecvd' = Append(chRecvd, ReceiverTake(chQueue)[1])
              /\ chQueue' = ReceiverTake(chQueue)[2]
              /\ chBacklog' = chBacklog - 1
         ELSE /\ chLast' = [chLast EXCEPT ![p] = Absent]
              /\ UNCHANGED <<chQueue, chRecvd, chBacklog>>
    /\ UNCHANGED <<chHandles, chRawSenders, chPc, chSent>>
    /\ UNCHANGED notChan

ChanNext ==
    \/ \E p, q \in Procs : CloneHandle(p, q)
    \/ \E p \in Procs : DropHandle(p)
    \/ \E p \in Procs : CloneSender(p)
    \/ \E p \in Procs : DropSender(p)
    \/ \E p \in Procs, v \in Values : ChanSend(p, v)
    \/ \E p \in Procs : RecvBegin(p)
    \/ \E p \in Procs : RecvReturn(p)
    \/ \E p \in Procs : TryRecv(p)

ChanSpec == Init /\ [][ChanNext]_vars

\* s is a prefix of t.
IsPrefix(s, t) == Len(s) <= Len(t) /\ SubSeq(t, 1, Len(s)) = s

(***************************************************************************)
(* C5. The values returned by recv/try_recv on a channel, in return order, *)
(* are a prefix of the values sent, in send-completion order, whichever    *)
(* handles sent and received them.                                         *)
(***************************************************************************)
C5_ChannelFifo == IsPrefix(chRecvd, chSent)

\* Two different values have been received while two handles exist and a
\* third value is still queued.
C5_Witness ==
    /\ Len(chRecvd) >= 2 /\ chRecvd[1] # chRecvd[2]
    /\ Cardinality(chHandles) >= 2
    /\ chQueue # <<>>

(***************************************************************************)
(* C6. A recv() blocked on an empty channel is released with None once no  *)
(* sender is left: when the queue is empty and no other handle and no      *)
(* cloned Sender exists any more, the blocked recv() can return.           *)
(***************************************************************************)
C6_RecvReleasedWhenSendersGone ==
    \A p \in Procs :
        (/\ chPc[p] = "recv"
         /\ chQueue = <<>>
         /\ chHandles = {p}
         /\ chRawSenders = {})
        => ENABLED RecvReturn(p)

(***************************************************************************)
(* The compilation cache (CacheManager, CacheMetadata) and the driver's    *)
(* compile_pipeline, one invocation at a time.                             *)
(***************************************************************************)
\* Mutant of binary_path: every key is given the same path.
binary_path_shared(k) == 1

\* CacheManager::binary_path: binaries/<key><suffix>. A path in binaries/ is
\* named by the key it belongs to.
binary_path(k) == k

\* Mutant of lookup: the `binary_path.exists()` check is missing.
lookupNoArtifactCheck(k) ==
    IF ~metaFile[k].exists THEN "miss"
    ELSE IF ~metaFile[k].parses THEN "error"
    ELSE "hit"

\* CacheManager::lookup: Ok(None) is "miss", Ok(Some(entry)) is "hit", and the
\* Err that `read_from_yaml(..)?` propagates is "error".
lookup(k) ==
    IF ~metaFile[k].exists THEN "miss"
    ELSE IF ~metaFile[k].parses THEN "error"
    ELSE IF binFile[metaFile[k].binary_path] = NoFile THEN "miss"
    ELSE "hit"

\* The CacheEntry that a hit on key k returns.
CacheEntryOf(k) ==
    [metadata |-> read_from_yaml(metaFile[k]),
     binary_path |-> read_from_yaml(metaFile[k]).binary_path]

\* compile_pipeline returns: Err(..) is "failed".
Return(how) == cpc' = "idle" /\ outcome' = how

\* compile_pipeline up to the fingerprint. The flags decide allow_cache();
\* --dump-tokens and --dump-ast suppress the lookup without changing the key.
Fingerprint(k, ac, ok) ==
    /\ cpc = "idle"
    /\ ckey' = k
    /\ allowCache' = ac
    /\ phases' = <<>>
    /\ lookupResult' = "none"
    /\ measured' = NoFile
    /\ IF ok
       THEN cpc' = (IF ac THEN "lookup" ELSE "lex") /\ outcome' = "none"
       ELSE Return("failed")
    /\ UNCHANGED <<metaFile, binFile, objFile, notCache>>

\* `if settings.allow_cache() { if let Some(entry) = lookup(&cache_key)? ..`.
Lookup ==
    /\ cpc = "lookup"
    /\ lookupResult' = lookup(ckey)
    /\ CASE lookup(ckey) = "hit" -> Return("hit")
         [] lookup(ckey) = "error" -> Return("failed")
         [] OTHER -> cpc' = "lex" /\ UNCHANGED outcome
    /\ UNCHANGED <<metaFile, binFile, objFile, ckey, allowCache, phases,
                   measured, notCache>>

\* tokenize(source): `Err(errors) => bail!("lexing failed")`.
Tokenize(ok) ==
    /\ cpc = "lex"
    /\ IF ok
       THEN cpc' = "parse" /\ phases' = Append(phases, "lex") /\ UNCHANGED outcome
       ELSE Return("failed") /\ UNCHANGED phases
    /\ UNCHANGED <<metaFile, binFile, objFile, ckey, allowCache, lookupResult,
                   measured, notCache>>

\* parse(&tokens): `Err(errors) => bail!("parsing failed")`.
Parse(ok) ==
    /\ cpc = "parse"
    /\ IF ok
       THEN cpc' = "lower" /\ phases' = Append(phases, "parse") /\ UNCHANGED outcome
       ELSE Return("failed") /\ UNCHANGED phases
    /\ UNCHANGED <<metaFile, binFile, objFile, ckey, allowCache, lookupResult,
                   measured, notCache>>

\* build_executable: lower_program, module.verify, target machine set-up.
LowerProgram(ok) ==
    /\ cpc = "lower"
    /\ IF ok THEN cpc' = "emit" /\ UNCHANGED outcome ELSE Return("failed")
    /\ UNCHANGED <<metaFile, binFile, objFile, ckey, allowCache, phases,
                   lookupResult, measured, notCache>>

\* build_executable: write_to_file(.., FileType::Object, &object_path). A failed
\* write may or may not leave a file behind.
WriteObject(ok, left) ==
    /\ cpc = "emit"
    /\ IF ok
       THEN /\ objFile' = [objFile EXCEPT ![ckey] = TRUE]
            /\ cpc' = "link"
            /\ phases' = Append(phases, "codegen")
            /\ UNCHANGED outcome
       ELSE /\ objFile' = [objFile EXCEPT ![ckey] = @ \/ left]
            /\ Return("failed")
            /\ UNCHANGED phases
    /\ UNCHANGED <<metaFile, binFile, ckey, allowCache, lookupResult, measured,
                   notCache>>

\* build_executable: `cc obj -o output` exits with success. The artifact is
\* written at binary_path(key), over any artifact already there; its size is
\* what the linker of the day produces (the key does not cover the linker).
\* The object file is removed.
LinkSuccess(s) ==
    /\ cpc = "link"
    /\ binFile' = [binFile EXCEPT ![binary_path(ckey)] = s]
    /\ objFile' = [objFile EXCEPT ![ckey] = FALSE]
    /\ cpc' = "measure"
    /\ phases' = Append(phases, "link")
    /\ UNCHANGED <<metaFile, ckey, allowCache, lookupResult, measured, outcome,
                   notCache>>

\* Mutant of LinkFailure: the entry is stored before the link status is read.
LinkFailureStoresEntry(gone) ==
    /\ cpc = "link"
    /\ metaFile' = [metaFile EXCEPT
                      ![ckey] = write_to_yaml(CacheMetadataNew(binary_path(ckey),
                                                               SizeStep))]
    /\ binFile' = IF gone THEN [binFile EXCEPT ![binary_path(ckey)] = NoFile]
                  ELSE binFile
    /\ Return("failed")
    /\ UNCHANGED <<objFile, ckey, allowCache, phases, lookupResult, measured,
                   notCache>>

\* build_executable: cc cannot be run or exits with a failure status; `bail!`.
\* The linker has left the output path alone or has removed the file there.
\* The object file stays.
LinkFailure(gone) ==
    /\ cpc = "link"
    /\ binFile' = IF gone THEN [binFile EXCEPT ![binary_path(ckey)] = NoFile]
                  ELSE binFile
    /\ Return("failed")
    /\ UNCHANGED <<metaFile, objFile, ckey, allowCache, phases, lookupResult,
                   measured, notCache>>

\* CacheMetadata::binary_size(&artifact.binary)?: open and mmap the artifact.
BinarySize(ok) ==
    /\ cpc = "measure"
    /\ IF ok
       THEN /\ binFile[binary_path(ckey)] # NoFile
            /\ measured' = binFile[binary_path(ckey)]
            /\ cpc' = "store"
            /\ UNCHANGED outcome
       ELSE Return("failed") /\ UNCHANGED measured
    /\ UNCHANGED <<metaFile, binFile, objFile, ckey, allowCache, phases,
                   lookupResult, notCache>>

\* CacheMetadata::new and CacheManager::store (write_to_yaml)?. File::create
\* truncates the metadata file and write_all fills it: the store succeeds, or
\* it fails before the file is touched, or it fails after the truncation.
Store(res) ==
    /\ cpc = "store"
    /\ CASE res = "ok" ->
              /\ metaFile' = [metaFile EXCEPT
                                ![ckey] = write_to_yaml(
                                    CacheMetadataNew(binary_path(ckey), measured))]
              /\ phases' = Append(phases, "store")
              /\ Return("compiled")
         [] res = "create_failed" ->
              /\ UNCHANGED <<metaFile, phases>>
              /\ Return("failed")
         [] OTHER ->
              /\ metaFile' = [metaFile EXCEPT ![ckey] = TruncatedMetadata]
              /\ UNCHANGED phases
              /\ Return("failed")
    /\ UNCHANGED <<binFile, objFile, ckey, allowCache, lookupResult, measured,
                   notCache>>

CacheNext ==
    \/ \E k \in Keys, ac \in BOOLEAN, ok \in BOOLEAN : Fingerprint(k, ac, ok)
    \/ Lookup
    \/ \E ok \in BOOLEAN : Tokenize(ok)
    \/ \E ok \in BOOLEAN : Parse(ok)
    \/ \E ok \in BOOLEAN : LowerProgram(ok)
    \/ \E ok \in BOOLEAN, left \in BOOLEAN : WriteObject(ok, left)
    \/ \E s \in Sizes : LinkSuccess(s)
    \/ \E gone \in BOOLEAN : LinkFailure(gone)
    \/ \E ok \in BOOLEAN : BinarySize(ok)
    \/ \E res \in {"ok", "create_failed", "write_failed"} : Store(res)

CacheSpec == Init /\ [][CacheNext]_vars

\* The metadata file of key k is there but does not deserialise.
Unparseable(k) == metaFile[k].exists /\ ~metaFile[k].parses

\* The artifact recorded by the metadata of key k is there, with the recorded size.
ArtifactMatches(k) ==
    binFile[read_from_yaml(metaFile[k]).binary_path]
        = read_from_yaml(metaFile[k]).binary_size

\* The order in which compile_pipeline runs the phases.
PhaseOrder == <<"lex", "parse", "codegen", "link", "store">>

(***************************************************************************)
(* C7. A lookup step that reports a hit finds the artifact at the recorded *)
(* binary_path on disk at that moment; a lookup step on a key whose        *)
(* metadata file is absent, or whose metadata records an artifact path     *)
(* where no file exists, reports a miss and the driver goes on to compile. *)
(***************************************************************************)
C7_LookupHitHasArtifact ==
    [][cpc = "lookup" =>
         /\ (lookupResult' = "hit" =>
               /\ metaFile'[ckey].parses
               /\ binFile'[metaFile'[ckey].binary_path] # NoFile)
         /\ ((\/ ~metaFile[ckey].exists
              \/ metaFile[ckey].parses /\ binFile[metaFile[ckey].binary_path] = NoFile)
             => lookupResult' = "miss" /\ cpc' = "lex")]_vars

\* A lookup has just reported a hit.
C7_Witness == lookupResult = "hit" /\ outcome = "hit" /\ cpc = "idle"

(***************************************************************************)
(* C8. Between invocations, for every key k: a metadata record for k comes *)
(* with an artifact of exactly the recorded size, and in every other       *)
(* situation lookup(k) reports a miss. (A metadata file that does not      *)
(* deserialise is C10's case and is left out here.)                        *)
(***************************************************************************)
C8_MetadataImpliesMatchingArtifact ==
    cpc = "idle" =>
        \A k \in Keys :
            \/ metaFile[k].parses /\ ArtifactMatches(k)
            \/ Unparseable(k)
            \/ lookup(k) = "miss"

(***************************************************************************)
(* C9. Within one invocation the completed phases are a prefix of lex,     *)
(* parse, code generation, link, metadata store; a metadata file changes   *)
(* only in the store step of an invocation that has completed the first    *)
(* four and whose artifact is on disk, and only the file of that           *)
(* invocation's key: an invocation that fails in lexing, parsing, lowering *)
(* or linking writes no metadata.                                          *)
(***************************************************************************)
C9_PhaseOrder ==
    [][/\ IsPrefix(phases', PhaseOrder)
       /\ (metaFile' # metaFile =>
             /\ cpc = "store"
             /\ phases = SubSeq(PhaseOrder, 1, 4)
             /\ binFile[binary_path(ckey)] # NoFile
             /\ \A k \in Keys \ {ckey} : metaFile'[k] = metaFile[k])]_vars

\* An invocation has run all five phases and stored its entry.
C9_Witness ==
    /\ phases = PhaseOrder
    /\ outcome = "compiled"
    /\ metaFile[ckey].parses
    /\ ArtifactMatches(ckey)

(***************************************************************************)
(* C10. A lookup step on a key whose metadata file exists but does not     *)
(* deserialise reports a miss, and the driver goes on to lexing instead of *)
(* failing.                                                                *)
(***************************************************************************)
C10_UnparseableMetadataIsMiss ==
    [][(cpc = "lookup" /\ Unparseable(ckey))
        => (lookupResult' = "miss" /\ cpc' = "lex")]_vars

(***************************************************************************)
(* C11. When an invocation has stored the metadata for its key, with the   *)
(* artifact on disk, lookup of that key reports a hit; the metadata of the *)
(* returned entry equals the stored one (binary_size, compiler_version)    *)
(* and its binary_path is the path of the stored artifact.                 *)
(***************************************************************************)
C11_StoreThenLookupHits ==
    (cpc = "idle" /\ outcome = "compiled") =>
        /\ lookup(ckey) = "hit"
        /\ CacheEntryOf(ckey).metadata = CacheMetadataNew(binary_path(ckey), measured)
        /\ CacheEntryOf(ckey).metadata.binary_size = binFile[binary_path(ckey)]
        /\ CacheEntryOf(ckey).metadata.compiler_version = VERSION
        /\ CacheEntryOf(ckey).binary_path = binary_path(ckey)

\* An entry whose binary_size has two digits has been stored.
C11_Witness ==
    /\ cpc = "idle" /\ outcome = "compiled"
    /\ measured >= 10
    /\ lookup(ckey) = "hit"

(***************************************************************************)
(* CacheManager::fingerprint, called again and again while one thing at a  *)
(* time changes: a byte of a file, a build option, the compiler version,   *)
(* the list of inputs.                                                     *)
(***************************************************************************)
\* The canonical files among the listed inputs.
CanonicalSet(inputs) == {canonicalise(inputs[i]) : i \in 1..Len(inputs)}

\* Every list of inputs: a primary path and up to MaxInputs - 1 imports.
InputLists == UNION {[1..n -> ListedPaths] : n \in 1..MaxInputs}

\* Byte i of file f is changed, then fingerprint runs.
FlipByte(f, i) ==
    /\ fpData' = [fpData EXCEPT ![f][i] = IF @ = "0" THEN "1" ELSE "0"]
    /\ fpKey' = fingerprint(fpInputs, fpData', fpOptions, fpVersion)
    /\ fpLast' = IF f \in CanonicalSet(fpInputs) THEN "input_byte" ELSE "other_byte"
    /\ UNCHANGED <<fpInputs, fpOptions, fpVersion, notFp>>

\* One field of CacheBuildOptions is toggled, then fingerprint runs.
ToggleOption(field) ==
    /\ fpOptions' = [fpOptions EXCEPT ![field] = ~@]
    /\ fpKey' = fingerprint(fpInputs, fpData, fpOptions', fpVersion)
    /\ fpLast' = "option"
    /\ UNCHANGED <<fpInputs, fpData, fpVersion, notFp>>

\* The compiler version string changes, then fingerprint runs.
ChangeVersion(v) ==
    /\ v # fpVersion
    /\ fpVersion' = v
    /\ fpKey' = fingerprint(fpInputs, fpData, fpOptions, v)
    /\ fpLast' = "version"
    /\ UNCHANGED <<fpInputs, fpData, fpOptions, notFp>>

\* The inputs are listed anew (other files, another order, repetitions, the
\* symlink instead of its target), then fingerprint runs.
ListInputs(inputs) ==
    /\ inputs # fpInputs
    /\ fpInputs' = inputs
    /\ fpKey' = fingerprint(inputs, fpData, fpOptions, fpVersion)
    /\ fpLast' = IF CanonicalSet(inputs) = CanonicalSet(fpInputs)
                 THEN "relisted" ELSE "inputs"
    /\ UNCHANGED <<fpData, fpOptions, fpVersion, notFp>>

\* fingerprint runs again and nothing has changed.
FingerprintAgain ==
    /\ fpKey' = fingerprint(fpInputs, fpData, fpOptions, fpVersion)
    /\ fpLast' = "rerun"
    /\ UNCHANGED <<fpInputs, fpData, fpOptions, fpVersion, notFp>>

FpNext ==
    \/ \E f \in Files, i \in 1..FileLen : FlipByte(f, i)
    \/ \E field \in {"release", "lto", "emit_ir"} : ToggleOption(field)
    \/ \E v \in Versions : ChangeVersion(v)
    \/ \E inputs \in InputLists : ListInputs(inputs)
    \/ FingerprintAgain

FpSpec == Init /\ [][FpNext]_vars

(***************************************************************************)
(* C12. Between two fingerprint calls over the same list of inputs, if     *)
(* exactly one component differs -- the bytes of a file among the inputs,  *)
(* the build options, or the compiler version string -- then the two keys  *)
(* differ.                                                                 *)
(***************************************************************************)
C12_KeyChangesWithAnyComponent ==
    [][fpInputs' = fpInputs =>
         /\ ((/\ fpOptions' = fpOptions /\ fpVersion' = fpVersion
              /\ \E f \in CanonicalSet(fpInputs) : fpData'[f] # fpData[f])
             => fpKey' # fpKey)
         /\ ((fpData' = fpData /\ fpVersion' = fpVersion /\ fpOptions' # fpOptions)
             => fpKey' # fpKey)
         /\ ((fpData' = fpData /\ fpOptions' = fpOptions /\ fpVersion' # fpVersion)
             => fpKey' # fpKey)]_vars

\* A release build over two inputs was fingerprinted after the compiler
\* version had changed.
C12_Witness ==
    /\ fpLast = "version"
    /\ fpOptions.release
    /\ Cardinality(CanonicalSet(fpInputs)) = 2

(***************************************************************************)
(* C13. Two fingerprint calls over the same set of canonical input paths,  *)
(* the same contents of those files, the same build options and the same   *)
(* compiler version yield the same key, however the inputs are listed: in  *)
(* another order, more than once, or through a symlink.                    *)
(***************************************************************************)
C13_KeyIsFunctionOfInputSet ==
    [][(/\ CanonicalSet(fpInputs') = CanonicalSet(fpInputs)
        /\ \A f \in CanonicalSet(fpInputs) : fpData'[f] = fpData[f]
        /\ fpOptions' = fpOptions
        /\ fpVersion' = fpVersion)
       => fpKey' = fpKey]_vars

\* The same files were listed anew, not in sorted order or with a repetition.
C13_Witness ==
    /\ fpLast = "relisted"
    /\ Len(fpInputs) = 2
    /\ canonicalise(fpInputs[1]) >= canonicalise(fpInputs[2])

(***************************************************************************)
(* C14. No step of an invocation for one key changes the artifact, the     *)
(* object file or the metadata file of another key, so what lookup reports *)
(* for every other key stays what it was: a previously cached key still    *)
(* hits after a new key was compiled and stored.                           *)
(***************************************************************************)
C14_OtherKeysUntouched ==
    [][\A k \in Keys \ {ckey} :
          /\ metaFile'[k] = metaFile[k]
          /\ binFile'[k] = binFile[k]
          /\ objFile'[k] = objFile[k]
          /\ lookup(k)' = lookup(k)]_vars

\* A key has been compiled and stored while another key is cached.
C14_Witness ==
    /\ cpc = "idle" /\ outcome = "compiled"
    /\ \E k \in Keys \ {ckey} : lookup(k) = "hit"

\* Task t was submitted with spawn_fn before shutdown() set the flag: its id
\* is below the ids of the no-op tasks that shutdown() pushed.
SpawnedBeforeShutdown(t) ==
    /\ t \in userTasks
    /\ \E n \in 1..(nextTaskId - 1) : n \notin userTasks /\ t < n

(***************************************************************************)
(* C15. The workers drain before they exit: when every worker has left     *)
(* worker_loop, every task that spawn_fn submitted before shutdown() set   *)
(* the flag has been run to completion (so that join() on it returns).     *)
(***************************************************************************)
C15_DrainBeforeExit ==
    (\A w \in Workers : wpc[w] = "exited") =>
        \A t \in TaskIds : SpawnedBeforeShutdown(t) => completed[t]

\* TaskRuntimeMetrics::snapshot, the task counters.
snapshot ==
    [tasks_spawned |-> mSpawned,
     tasks_completed |-> mCompleted,
     tasks_waiting |-> IF mWaiting > 0 THEN mWaiting ELSE 0]

(***************************************************************************)
(* C16. When at least one task was spawned and join() has returned for     *)
(* every spawned task, a metrics snapshot shows as many tasks completed as *)
(* spawned and none waiting.                                               *)
(***************************************************************************)
C16_MetricsSettledAfterJoin ==
    (/\ userTasks # {}
     /\ \A t \in userTasks : \E j \in Joiners : jtarget[j] = t /\ jpc[j] = "returned")
    => /\ snapshot.tasks_completed = snapshot.tasks_spawned
       /\ snapshot.tasks_waiting = 0

(***************************************************************************)
(* JoinFuture::poll (JoinState::register_waker).                           *)
(***************************************************************************)
\* Async client p polls the JoinFuture of task t: register_waker locks inner
\* (possible when no one holds the lock), returns true if `completed`, else
\* pushes a clone of the waker and returns false; poll maps that to Ready or
\* Pending. A future that has returned Ready is not polled again.
Poll(p, t) ==
    /\ t \in userTasks
    /\ pollTarget[p] \in {NoTask, t}
    /\ pollLast[p] # "Ready"
    /\ completed[t] \/ pollPending[p] < MaxPolls
    /\ joinLock[t] = 0
    /\ pollTarget' = [pollTarget EXCEPT ![p] = t]
    /\ IF completed[t]
       THEN /\ pollLast' = [pollLast EXCEPT ![p] = "Ready"]
            /\ UNCHANGED <<waiters, pollPending>>
       ELSE /\ waiters' = [waiters EXCEPT ![t] = Append(@, p)]
            /\ pollPending' = [pollPending EXCEPT ![p] = @ + 1]
            /\ pollLast' = [pollLast EXCEPT ![p] = "Pending"]
    /\ UNCHANGED <<shutdown, nextTaskId, userTasks, injector, local, wpc, frame,
                   via, stealIdx, invoked, funcDone, completed, joinLock, jpc,
                   jtarget, mSpawned, mCompleted, mWaiting, wakes>>
    /\ UNCHANGED notSched

\* The scheduler with async clients.
PollNext ==
    \/ SchedNext
    \/ \E p \in Pollers, t \in TaskIds : Poll(p, t)

PollSpec == Init /\ [][PollNext]_vars

(***************************************************************************)
(* C17. poll does not wait for the task: whenever the JoinState's mutex is *)
(* free, a poll can run to its end, completed or not. It returns Ready     *)
(* only for a completed task; a poll that returns Pending has registered   *)
(* its waker, and every registered waker is woken by mark_complete: once   *)
(* the task is completed, as many wakes were delivered as polls returned   *)
(* Pending, and no waker is left in the list.                              *)
(***************************************************************************)
C17_PollRegistersAndIsWoken ==
    \A p \in Pollers :
        /\ \A t \in userTasks :
              (/\ pollTarget[p] \in {NoTask, t} /\ pollLast[p] # "Ready"
               /\ (completed[t] \/ pollPending[p] < MaxPolls)
               /\ joinLock[t] = 0)
              => ENABLED Poll(p, t)
        /\ pollLast[p] = "Ready" => completed[pollTarget[p]]
        /\ pollTarget[p] # NoTask =>
              IF completed[pollTarget[p]]
              THEN /\ wakes[p] = pollPending[p]
                   /\ waiters[pollTarget[p]] = <<>>
              ELSE /\ wakes[p] = 0
                   /\ Occurrences(waiters[pollTarget[p]], p) = pollPending[p]

\* Two polls returned Pending, the task then completed and both wakers were
\* woken; a later poll returned Ready.
C17_Witness ==
    \E p \in Pollers :
        /\ pollPending[p] = 2
        /\ wakes[p] = 2
        /\ pollLast[p] = "Ready"

\* ------------------------------------------------------------------------
\* tokenize (src/src/lexer/tokenizer.rs)
\* ------------------------------------------------------------------------

\* source.split_inclusive('\n'): the chunk that starts after `offset`
\* characters, up to and including its line feed if it has one.
RECURSIVE ChunkEnd(_, _)
ChunkEnd(source, i) ==
    IF i >= Len(source) THEN Len(source)
    ELSE IF source[i] = "NL" THEN i
    ELSE ChunkEnd(source, i + 1)

NextChunk(source, offset) == SubSeq(source, offset + 1, ChunkEnd(source, offset + 1))

has_newline(chunk) == chunk # <<>> /\ chunk[Len(chunk)] = "NL"

line_without_newline(chunk) ==
    IF has_newline(chunk) THEN SubSeq(chunk, 1, Len(chunk) - 1) ELSE chunk

\* The loop over the leading whitespace: a space widens the indentation, a
\* tab is reported and skipped, anything else ends the loop. idx counts the
\* characters consumed.
RECURSIVE ScanIndent(_, _, _, _)
ScanIndent(line, idx, indent_width, tabs) ==
    IF idx >= Len(line)
    THEN [idx |-> idx, indent_width |-> indent_width, tabs |-> tabs]
    ELSE IF line[idx + 1] = "SP"
    THEN ScanIndent(line, idx + 1, indent_width + 1, tabs)
    ELSE IF line[idx + 1] = "TAB"
    THEN ScanIndent(line, idx + 1, indent_width, tabs + 1)
    ELSE [idx |-> idx, indent_width |-> indent_width, tabs |-> tabs]

\* rest.trim().is_empty()
is_blank(rest) == \A i \in 1..Len(rest) : rest[i] \in {"SP", "TAB"}

\* rest.starts_with('#')
is_comment(rest) == rest # <<>> /\ rest[1] = "#"

\* The diagnostics of one line, each with the line's number.
ErrorsAt(kinds, line_number) ==
    [i \in 1..Len(kinds) |-> [kind |-> kinds[i], line |-> line_number]]

\* n times the token or diagnostic x.
Repeat(x, n) == [i \in 1..n |-> x]

\* The comparison of the line's indentation with the top of indent_stack:
\* a deeper line pushes its width and yields Indent; a shallower one pops
\* every deeper level, a Dedent each, and is a mismatch when it stops on a
\* level that is not its own.
RECURSIVE PopDeeper(_, _)
PopDeeper(stack, current_indent) ==
    IF current_indent < stack[Len(stack)]
    THEN PopDeeper(SubSeq(stack, 1, Len(stack) - 1), current_indent)
    ELSE stack

Indentation(stack, current_indent) ==
    LET last_indent == stack[Len(stack)]
        popped == PopDeeper(stack, current_indent)
    IN  IF current_indent > last_indent
        THEN [stack |-> Append(stack, current_indent),
              tokens |-> <<"Indent">>, errors |-> <<>>]
        ELSE IF current_indent < last_indent
        THEN [stack |-> popped,
              tokens |-> Repeat("Dedent", Len(stack) - Len(popped)),
              errors |-> IF current_indent # popped[Len(popped)]
                         THEN <<"IndentationMismatch">> ELSE <<>>]
        ELSE [stack |-> stack, tokens |-> <<>>, errors |-> <<>>]

\* The index of the closing quote at or after i, or Len(line) if none.
RECURSIVE ScanString(_, _)
ScanString(line, i) ==
    IF i < Len(line) /\ line[i + 1] # "Q" THEN ScanString(line, i + 1) ELSE i

\* The index after the identifier's last character.
RECURSIVE ScanWord(_, _)
ScanWord(line, i) ==
    IF i < Len(line) /\ line[i + 1] = "a" THEN ScanWord(line, i + 1) ELSE i

\* The loop over the characters of the line after its indentation: blanks
\* are skipped, a comment sign ends the line, a string without its closing
\* quote is reported and ends the line, an unexpected character is reported
\* and skipped.
RECURSIVE LexBody(_, _, _, _)
LexBody(line, i, toks, errs) ==
    IF i >= Len(line) THEN [tokens |-> toks, errors |-> errs]
    ELSE LET ch == line[i + 1] IN
         IF ch \in {"SP", "TAB"} THEN LexBody(line, i + 1, toks, errs)
         ELSE IF ch = "#" THEN [tokens |-> toks, errors |-> errs]
         ELSE IF ch = "Q"
         THEN LET close == ScanString(line, i + 1) IN
              IF close >= Len(line)
              THEN [tokens |-> toks,
                    errors |-> Append(errs, "UnterminatedString")]
              ELSE LexBody(line, close + 1, Append(toks, "StringLiteral"), errs)
         ELSE IF ch = "a"
         THEN LexBody(line, ScanWord(line, i + 1), Append(toks, "Identifier"), errs)
         ELSE LexBody(line, i + 1, toks, Append(errs, "UnexpectedCharacter"))

\* A variant that emits NEWLINE only for a line that has its line feed.
NewlineIfTerminated(terminated) == IF terminated THEN <<"Newline">> ELSE <<>>

\* The NEWLINE pushed after the body of every line that is lexed, with or
\* without a line feed.
NewlineToken(terminated) == <<"Newline">>

\* A variant that leaves the open indentation levels open.
NoFinalDedents(stack) == <<>>

\* At the end of the source, a Dedent for every level above the first.
FinalDedents(stack) == Repeat("Dedent", Len(stack) - 1)

\* A variant that returns the first diagnostic only.
LexResultFirstError(tokens, errors) ==
    IF errors = <<>>
    THEN [ok |-> TRUE, tokens |-> tokens, errors |-> <<>>]
    ELSE [ok |-> FALSE, tokens |-> <<>>, errors |-> <<Head(errors)>>]

\* Ok(tokens) if no diagnostic was pushed, Err(errors) otherwise.
LexResult(tokens, errors) ==
    IF errors = <<>>
    THEN [ok |-> TRUE, tokens |-> tokens, errors |-> <<>>]
    ELSE [ok |-> FALSE, tokens |-> <<>>, errors |-> errors]

\* tokenize is called on a source.
Tokenize_call ==
    /\ lxPc = "idle"
    /\ \E source \in Sources : lxSource' = source
    /\ lxPc' = "lexing"
    /\ UNCHANGED <<lxOffset, lxLineIdx, lxTokens, lxIndentStack, lxErrors, lxOut>>
    /\ UNCHANGED notLex

\* One turn of the loop for a blank or comment-only chunk: the tabs of its
\* indentation are reported, nothing else happens.
LexSkipLine ==
    /\ lxPc = "lexing"
    /\ lxOffset < Len(lxSource)
    /\ LET chunk == NextChunk(lxSource, lxOffset)
           line == line_without_newline(chunk)
           ind == ScanIndent(line, 0, 0, 0)
           rest == SubSeq(line, ind.idx + 1, Len(line))
       IN  /\ is_blank(rest) \/ is_comment(rest)
           /\ lxErrors' = lxErrors
                \o ErrorsAt(Repeat("TabsNotAllowed", ind.tabs), lxLineIdx + 1)
           /\ lxOffset' = lxOffset + Len(chunk)
    /\ lxLineIdx' = lxLineIdx + 1
    /\ UNCHANGED <<lxSource, lxTokens, lxIndentStack, lxPc, lxOut>>
    /\ UNCHANGED notLex

\* One turn of the loop for any other chunk: indentation, body, NEWLINE.
LexCodeLine ==
    /\ lxPc = "lexing"
    /\ lxOffset < Len(lxSource)
    /\ LET chunk == NextChunk(lxSource, lxOffset)
           line == line_without_newline(chunk)
           ind == ScanIndent(line, 0, 0, 0)
           rest == SubSeq(line, ind.idx + 1, Len(line))
           dent == Indentation(lxIndentStack, ind.indent_width)
           body == LexBody(line, ind.idx, <<>>, <<>>)
       IN  /\ ~(is_blank(rest) \/ is_comment(rest))
           /\ lxIndentStack' = dent.stack
           /\ lxTokens' = lxTokens \o dent.tokens \o body.tokens
                \o NewlineToken(has_newline(chunk))
           /\ lxErrors' = lxErrors
                \o ErrorsAt(Repeat("TabsNotAllowed", ind.tabs) \o dent.errors
                              \o body.errors, lxLineIdx + 1)
           /\ lxOffset' = lxOffset + Len(chunk)
    /\ lxLineIdx' = lxLineIdx + 1
    /\ UNCHANGED <<lxSource, lxPc, lxOut>>
    /\ UNCHANGED notLex

\* After the last chunk: the remaining levels are closed, Eof is pushed and
\* tokenize returns.
LexFinish ==
    /\ lxPc = "lexing"
    /\ lxOffset >= Len(lxSource)
    /\ lxTokens' = lxTokens \o FinalDedents(lxIndentStack) \o <<"Eof">>
    /\ lxIndentStack' = <<0>>
    /\ lxOut' = LexResult(lxTokens', lxErrors)
    /\ lxPc' = "done"
    /\ UNCHANGED <<lxSource, lxOffset, lxLineIdx, lxErrors>>
    /\ UNCHANGED notLex

LexNext ==
    \/ Tokenize_call
    \/ LexSkipLine
    \/ LexCodeLine
    \/ LexFinish

LexSpec == Init /\ [][LexNext]_vars

\* The lines of a source, without their line feeds; a source that ends with
\* a line feed has no further, empty line after it.
RECURSIVE SourceLines(_)
SourceLines(source) ==
    IF source = <<>> THEN <<>>
    ELSE LET end == ChunkEnd(source, 1) IN
         <<line_without_newline(SubSeq(source, 1, end))>>
            \o SourceLines(SubSeq(source, end + 1, Len(source)))

\* How many diagnostics of a kind a list holds for a line.
DiagnosticsAt(errors, kind, n) ==
    Cardinality({i \in 1..Len(errors) :
                    errors[i].kind = kind /\ errors[i].line = n})

\* Read off the text of a line: the tabs of its leading whitespace, the
\* unexpected characters before any string or comment, and whether its only
\* quote stands before any comment sign.
TabsOfIndentation(line) ==
    {i \in 1..Len(line) :
        line[i] = "TAB" /\ \A j \in 1..(i - 1) : line[j] \in {"SP", "TAB"}}

PlainUnexpected(line) ==
    {i \in 1..Len(line) :
        line[i] = "$" /\ \A j \in 1..(i - 1) : line[j] \notin {"Q", "#"}}

OpensStringOnly(line) ==
    \E i \in 1..Len(line) :
        /\ line[i] = "Q"
        /\ \A j \in 1..Len(line) : j # i => line[j] # "Q"
        /\ \A j \in 1..(i - 1) : line[j] # "#"

\* C18: tokenize returns the tokens exactly when no diagnostic was raised;
\* otherwise it returns no tokens but the diagnostics of the whole source:
\* every line's tabs, unexpected characters and unterminated string are in
\* the list, whatever was reported on the lines before.
C18_AllDiagnosticsOrTokens ==
    lxPc = "done" =>
        LET lines == SourceLines(lxSource) IN
        /\ lxOut.ok <=> lxErrors = <<>>
        /\ lxOut.ok => lxOut.tokens = lxTokens /\ lxOut.errors = <<>>
        /\ ~lxOut.ok => lxOut.tokens = <<>> /\ lxOut.errors # <<>>
        /\ \A n \in 1..Len(lines) :
            /\ DiagnosticsAt(lxOut.errors, "TabsNotAllowed", n)
                 = Cardinality(TabsOfIndentation(lines[n]))
            /\ DiagnosticsAt(lxOut.errors, "UnexpectedCharacter", n)
                 >= Cardinality(PlainUnexpected(lines[n]))
            /\ OpensStringOnly(lines[n])
                 => DiagnosticsAt(lxOut.errors, "UnterminatedString", n) = 1

\* tokenize failed with an unterminated string on one line and a diagnostic
\* of a later line after it in the list.
C18_Witness ==
    /\ lxPc = "done"
    /\ ~lxOut.ok
    /\ \E i, j \in 1..Len(lxOut.errors) :
        /\ i < j
        /\ lxOut.errors[i].kind = "UnterminatedString"
        /\ lxOut.errors[j].line > lxOut.errors[i].line

\* How many tokens of a kind the first k tokens hold.
CountKind(tokens, kind, k) ==
    Cardinality({i \in 1..k : tokens[i] = kind})

\* The index of the last NEWLINE, 0 if there is none.
LastNewline(tokens) ==
    IF \E i \in 1..Len(tokens) : tokens[i] = "Newline"
    THEN CHOOSE i \in 1..Len(tokens) :
            /\ tokens[i] = "Newline"
            /\ \A j \in (i + 1)..Len(tokens) : tokens[j] # "Newline"
    ELSE 0

\* C19: in a token stream returned as success there are as many DEDENTs as
\* INDENTs, no prefix has more DEDENTs than INDENTs, the stream ends with one
\* DEDENT for each level open after the last line and then the only EOF.
C19_IndentsBalance ==
    (lxPc = "done" /\ lxOut.ok) =>
        LET t == lxOut.tokens
            n == Len(t)
            nl == LastNewline(t)
            open == CountKind(t, "Indent", nl) - CountKind(t, "Dedent", nl)
        IN  /\ CountKind(t, "Indent", n) = CountKind(t, "Dedent", n)
            /\ \A k \in 0..n : CountKind(t, "Dedent", k) <= CountKind(t, "Indent", k)
            /\ n >= 1 /\ t[n] = "Eof" /\ CountKind(t, "Eof", n) = 1
            /\ n = nl + open + 1
            /\ \A i \in (nl + 1)..(n - 1) : t[i] = "Dedent"

\* A successful tokenization whose source ends two levels deep.
C19_Witness ==
    /\ lxPc = "done"
    /\ lxOut.ok
    /\ Len(lxOut.tokens) >= 3
    /\ lxOut.tokens[Len(lxOut.tokens) - 1] = "Dedent"
    /\ lxOut.tokens[Len(lxOut.tokens) - 2] = "Dedent"

\* A line with a character other than a space or a tab.
NonBlank(line) == \E i \in 1..Len(line) : line[i] \notin {"SP", "TAB"}

\* A line whose first such character is the comment sign.
CommentOnly(line) ==
    \E i \in 1..Len(line) :
        line[i] = "#" /\ \A j \in 1..(i - 1) : line[j] \in {"SP", "TAB"}

\* C20 as stated: a successful tokenization has as many NEWLINE tokens as
\* the source has non-blank lines.
C20_NewlinePerNonBlankLine ==
    (lxPc = "done" /\ lxOut.ok) =>
        LET lines == SourceLines(lxSource) IN
        CountKind(lxOut.tokens, "Newline", Len(lxOut.tokens))
            = Cardinality({n \in 1..Len(lines) : NonBlank(lines[n])})

\* C20, amended: a successful tokenization has as many NEWLINE tokens as the
\* source has lines that are neither blank nor comment-only, whether or not
\* the last line ends with a line feed; blank and comment-only lines produce
\* none.
C20_NewlinePerCodeLine ==
    (lxPc = "done" /\ lxOut.ok) =>
        LET lines == SourceLines(lxSource) IN
        CountKind(lxOut.tokens, "Newline", Len(lxOut.tokens))
            = Cardinality({n \in 1..Len(lines) :
                            NonBlank(lines[n]) /\ ~CommentOnly(lines[n])})

\* A successful tokenization of a source with a blank line, a comment-only
\* line and a last line of code without its line feed.
C20_Witness ==
    /\ lxPc = "done"
    /\ lxOut.ok
    /\ lxSource # <<>>
    /\ lxSource[Len(lxSource)] = "a"
    /\ LET lines == SourceLines(lxSource) IN
        /\ \E n \in 1..Len(lines) : ~NonBlank(lines[n])
        /\ \E n \in 1..Len(lines) : CommentOnly(lines[n])

\* ------------------------------------------------------------------------
\* Statement lowering (src/src/codegen/llvm/compiler/stmt.rs)
\* ------------------------------------------------------------------------

\* context.append_basic_block, once per label.
AppendBlocks(blocks, labels) ==
    blocks \o [i \in 1..Len(labels) |-> BasicBlock(labels[i])]

\* get_insert_block().and_then(|b| b.get_terminator()).is_some()
Terminated(blocks, b) == blocks[b].term.op # "none"

\* build_return, build_unconditional_branch, build_conditional_branch.
SetTerm(blocks, b, op, targets) ==
    [blocks EXCEPT ![b].term = [op |-> op, targets |-> targets]]

\* The branch built only when the insert block has no terminator yet.
BranchIfOpen(blocks, b, target) ==
    IF Terminated(blocks, b) THEN blocks ELSE SetTerm(blocks, b, "br", <<target>>)

\* build_call
AddCall(blocks, b, callee) ==
    [blocks EXCEPT ![b].calls = Append(@, callee)]

\* What is left to do: lower a statement, or go on in lower_if_statement or
\* lower_collection_for_loop after a block, with the basic blocks it holds.
Item(op, stmt, bbs) == [op |-> op, stmt |-> stmt, bbs |-> bbs]

\* lower_block: the statements of a block, in order.
BlockItems(block) ==
    [i \in 1..Len(block) |-> Item("stmt", block[i], <<>>)]

HeadIs(op, kind) ==
    /\ cgPc = "lowering"
    /\ cgWork # <<>>
    /\ Head(cgWork).op = op
    /\ op = "stmt" => Head(cgWork).stmt.kind = kind

\* A function whose body is one statement is about to be lowered: the entry
\* block exists and the builder stands at its end.
LowerFunctionBegin ==
    /\ cgPc = "idle"
    /\ \E stmt \in Bodies :
        /\ cgStmt' = stmt
        /\ cgWork' = <<Item("stmt", stmt, <<>>)>>
    /\ cgBlocks' = <<BasicBlock("entry")>>
    /\ cgInsert' = 1
    /\ cgLoops' = <<>>
    /\ cgPc' = "lowering"
    /\ UNCHANGED notLower

\* Statement::Expr
LowerExpr ==
    /\ HeadIs("stmt", "Expr")
    /\ cgWork' = Tail(cgWork)
    /\ UNCHANGED <<cgStmt, cgBlocks, cgInsert, cgLoops, cgPc>>
    /\ UNCHANGED notLower

\* Statement::Return
LowerReturn ==
    /\ HeadIs("stmt", "Return")
    /\ cgBlocks' = SetTerm(cgBlocks, cgInsert, "ret", <<>>)
    /\ cgWork' = Tail(cgWork)
    /\ UNCHANGED <<cgStmt, cgInsert, cgLoops, cgPc>>
    /\ UNCHANGED notLower

\* Statement::Break inside a loop: a branch to the loop's exit_bb.
LowerBreak ==
    /\ HeadIs("stmt", "Break")
    /\ cgLoops # <<>>
    /\ cgBlocks' = SetTerm(cgBlocks, cgInsert, "br", <<cgLoops[Len(cgLoops)].exit_bb>>)
    /\ cgWork' = Tail(cgWork)
    /\ UNCHANGED <<cgStmt, cgInsert, cgLoops, cgPc>>
    /\ UNCHANGED notLower

\* Statement::Continue inside a loop: a branch to the loop's cond_bb.
LowerContinue ==
    /\ HeadIs("stmt", "Continue")
    /\ cgLoops # <<>>
    /\ cgBlocks' = SetTerm(cgBlocks, cgInsert, "br", <<cgLoops[Len(cgLoops)].cond_bb>>)
    /\ cgWork' = Tail(cgWork)
    /\ UNCHANGED <<cgStmt, cgInsert, cgLoops, cgPc>>
    /\ UNCHANGED notLower

\* Break or Continue outside of a loop: bail!
LowerOutsideLoop ==
    /\ HeadIs("stmt", "Break") \/ HeadIs("stmt", "Continue")
    /\ cgLoops = <<>>
    /\ cgPc' = "error"
    /\ UNCHANGED <<cgStmt, cgBlocks, cgInsert, cgLoops, cgWork>>
    /\ UNCHANGED notLower

\* lower_if_statement up to the then-block: the three blocks, the
\* conditional branch, the builder at the end of then_bb.
LowerIf ==
    /\ HeadIs("stmt", "If")
    /\ LET stmt == Head(cgWork).stmt
           then_bb == Len(cgBlocks) + 1
           else_bb == Len(cgBlocks) + 2
           merge_bb == Len(cgBlocks) + 3
       IN  /\ cgBlocks' = SetTerm(AppendBlocks(cgBlocks, <<"then", "else", "merge">>),
                                  cgInsert, "condbr", <<then_bb, else_bb>>)
           /\ cgInsert' = then_bb
           /\ cgWork' = BlockItems(stmt.blocks[1])
                \o <<Item("if_then", stmt, <<else_bb, merge_bb>>)>>
                \o Tail(cgWork)
    /\ UNCHANGED <<cgStmt, cgLoops, cgPc>>
    /\ UNCHANGED notLower

\* The elif arms and the else of an If, as the recursive call gets them.
ElifRest(stmt) ==
    [kind |-> "If", blocks |-> Tail(stmt.blocks), hasElse |-> stmt.hasElse]

NumElifs(stmt) == Len(stmt.blocks) - 1 - (IF stmt.hasElse THEN 1 ELSE 0)

\* After the then-block, with elif arms: then_bb is closed, the builder moves
\* to else_bb and lower_if_statement is called for the first elif.
LowerIfElif ==
    /\ HeadIs("if_then", "")
    /\ LET item == Head(cgWork) IN
        /\ NumElifs(item.stmt) > 0
        /\ cgBlocks' = BranchIfOpen(cgBlocks, cgInsert, item.bbs[2])
        /\ cgInsert' = item.bbs[1]
        /\ cgWork' = <<Item("stmt", ElifRest(item.stmt), <<>>),
                       Item("if_end", item.stmt, <<item.bbs[2]>>)>>
                \o Tail(cgWork)
    /\ UNCHANGED <<cgStmt, cgLoops, cgPc>>
    /\ UNCHANGED notLower

\* After the then-block, no elif arms, an else-block: it is lowered in else_bb.
LowerIfElse ==
    /\ HeadIs("if_then", "")
    /\ LET item == Head(cgWork) IN
        /\ NumElifs(item.stmt) = 0
        /\ item.stmt.hasElse
        /\ cgBlocks' = BranchIfOpen(cgBlocks, cgInsert, item.bbs[2])
        /\ cgInsert' = item.bbs[1]
        /\ cgWork' = BlockItems(item.stmt.blocks[2])
                \o <<Item("if_else", item.stmt, <<item.bbs[2]>>)>>
                \o Tail(cgWork)
    /\ UNCHANGED <<cgStmt, cgLoops, cgPc>>
    /\ UNCHANGED notLower

\* After the then-block, neither elif nor else: else_bb branches to merge_bb
\* and the builder moves to merge_bb.
LowerIfNoElse ==
    /\ HeadIs("if_then", "")
    /\ LET item == Head(cgWork) IN
        /\ NumElifs(item.stmt) = 0
        /\ ~item.stmt.hasElse
        /\ cgBlocks' = SetTerm(BranchIfOpen(cgBlocks, cgInsert, item.bbs[2]),
                               item.bbs[1], "br", <<item.bbs[2]>>)
        /\ cgInsert' = item.bbs[2]
    /\ cgWork' = Tail(cgWork)
    /\ UNCHANGED <<cgStmt, cgLoops, cgPc>>
    /\ UNCHANGED notLower

\* After the else-block: it is closed with a branch to merge_bb if it is open,
\* and the builder moves to merge_bb.
LowerIfElseEnd ==
    /\ HeadIs("if_else", "")
    /\ cgBlocks' = BranchIfOpen(cgBlocks, cgInsert, Head(cgWork).bbs[1])
    /\ cgInsert' = Head(cgWork).bbs[1]
    /\ cgWork' = Tail(cgWork)
    /\ UNCHANGED <<cgStmt, cgLoops, cgPc>>
    /\ UNCHANGED notLower

\* After the recursive call for the elif arms: the builder moves to merge_bb;
\* nothing is built in the block the call left the builder in.
LowerIfEnd ==
    /\ HeadIs("if_end", "")
    /\ cgInsert' = Head(cgWork).bbs[1]
    /\ cgWork' = Tail(cgWork)
    /\ UNCHANGED <<cgStmt, cgBlocks, cgLoops, cgPc>>
    /\ UNCHANGED notLower

\* lower_collection_for_loop up to the body: the iterator is created, the four
\* blocks are appended, loop_cond tests has_next, loop_body takes the next
\* element, the loop context (loop_cond, loop_cleanup) is pushed.
LowerFor ==
    /\ HeadIs("stmt", "For")
    /\ LET stmt == Head(cgWork).stmt
           loop_cond_bb == Len(cgBlocks) + 1
           loop_body_bb == Len(cgBlocks) + 2
           cleanup_bb == Len(cgBlocks) + 3
           exit_bb == Len(cgBlocks) + 4
           created == AddCall(cgBlocks, cgInsert, "create_fn")
           appended == AppendBlocks(created,
                <<"loop_cond", "loop_body", "loop_cleanup", "loop_exit">>)
           entered == SetTerm(appended, cgInsert, "br", <<loop_cond_bb>>)
           cond == SetTerm(AddCall(entered, loop_cond_bb, "has_next_fn"),
                           loop_cond_bb, "condbr", <<loop_body_bb, cleanup_bb>>)
       IN  /\ cgBlocks' = AddCall(cond, loop_body_bb, "next_fn")
           /\ cgInsert' = loop_body_bb
           /\ cgLoops' = Append(cgLoops, [cond_bb |-> loop_cond_bb, exit_bb |-> cleanup_bb])
           /\ cgWork' = BlockItems(stmt.blocks[1])
                \o <<Item("for_body", stmt, <<loop_cond_bb, cleanup_bb, exit_bb>>)>>
                \o Tail(cgWork)
    /\ UNCHANGED <<cgStmt, cgPc>>
    /\ UNCHANGED notLower

\* After the body: the loop context is popped, an open block branches back to
\* loop_cond, loop_cleanup frees the iterator and branches to loop_exit, where
\* the builder is left.
LowerForEnd ==
    /\ HeadIs("for_body", "")
    /\ LET bbs == Head(cgWork).bbs
           back == BranchIfOpen(cgBlocks, cgInsert, bbs[1])
       IN  /\ cgBlocks' = SetTerm(AddCall(back, bbs[2], "free_fn"), bbs[2], "br", <<bbs[3]>>)
           /\ cgInsert' = bbs[3]
    /\ cgLoops' = SubSeq(cgLoops, 1, Len(cgLoops) - 1)
    /\ cgWork' = Tail(cgWork)
    /\ UNCHANGED <<cgStmt, cgPc>>
    /\ UNCHANGED notLower

\* The end of the function: a block left open gets a return.
LowerFunctionEnd ==
    /\ cgPc = "lowering"
    /\ cgWork = <<>>
    /\ cgBlocks' = IF Terminated(cgBlocks, cgInsert) THEN cgBlocks
                   ELSE SetTerm(cgBlocks, cgInsert, "ret", <<>>)
    /\ cgPc' = "done"
    /\ UNCHANGED <<cgStmt, cgInsert, cgLoops, cgWork>>
    /\ UNCHANGED notLower

LowerNext ==
    \/ LowerFunctionBegin
    \/ LowerExpr
    \/ LowerReturn
    \/ LowerBreak
    \/ LowerContinue
    \/ LowerOutsideLoop
    \/ LowerIf
    \/ LowerIfElif
    \/ LowerIfElse
    \/ LowerIfNoElse
    \/ LowerIfElseEnd
    \/ LowerIfEnd
    \/ LowerFor
    \/ LowerForEnd
    \/ LowerFunctionEnd

LowerSpec == Init /\ [][LowerNext]_vars

\* The blocks a block's terminator names.
Successors(blocks, b) ==
    {blocks[b].term.targets[i] : i \in 1..Len(blocks[b].term.targets)}

\* The blocks reachable from the set S along terminators without entering a
\* block of `avoid`.
RECURSIVE Closure(_, _, _)
Closure(blocks, S, avoid) ==
    LET next == S \cup (UNION {Successors(blocks, b) : b \in S} \ avoid)
    IN  IF next = S THEN S ELSE Closure(blocks, next, avoid)

\* The n-th block, in order of creation, that carries a label.
NthWithLabel(blocks, label, n) ==
    CHOOSE b \in 1..Len(blocks) :
        /\ blocks[b].label = label
        /\ Cardinality({c \in 1..(b - 1) : blocks[c].label = label}) = n - 1

\* The If statement of the function body: the body itself or the loop's body.
HasIf(stmt) ==
    \/ stmt.kind = "If"
    \/ stmt.kind = "For" /\ stmt.blocks[1][1].kind = "If"

IfOf(stmt) == IF stmt.kind = "If" THEN stmt ELSE stmt.blocks[1][1]

\* C21: once an if statement is lowered, every arm that does not end in
\* return, break or continue reaches the merge block that follows the whole
\* statement, a missing else falls through to it, and every block created
\* for the statement has a terminator.
C21_ArmsReachMerge ==
    (cgPc = "done" /\ HasIf(cgStmt)) =>
        LET ifs == IfOf(cgStmt)
            arms == Len(ifs.blocks) - (IF ifs.hasElse THEN 1 ELSE 0)
            merge == NthWithLabel(cgBlocks, "merge", 1)
            last_else == NthWithLabel(cgBlocks, "else", arms)
        IN  /\ \A i \in 1..arms :
                ifs.blocks[i][1].kind = "Expr"
                    => merge \in Closure(cgBlocks, {NthWithLabel(cgBlocks, "then", i)}, {})
            /\ (ifs.hasElse /\ ifs.blocks[arms + 1][1].kind = "Expr")
                    => merge \in Closure(cgBlocks, {last_else}, {})
            /\ ~ifs.hasElse => merge \in Closure(cgBlocks, {last_else}, {})
            /\ \A b \in 1..Len(cgBlocks) :
                cgBlocks[b].label \in {"then", "else", "merge"}
                    => Terminated(cgBlocks, b)

\* C22: once a for loop over a collection is lowered, no path leaves the loop
\* but through loop_cleanup: no block of the loop returns or branches out of
\* the loop, and loop_cleanup, on the way to loop_exit, is the one place
\* where the iterator's free entry point is called, once.
C22_FreeOnEveryExit ==
    (cgPc = "done" /\ cgStmt.kind = "For") =>
        LET cleanup == NthWithLabel(cgBlocks, "loop_cleanup", 1)
            exit == NthWithLabel(cgBlocks, "loop_exit", 1)
            inside == Closure(cgBlocks, {NthWithLabel(cgBlocks, "loop_cond", 1)}, {cleanup})
        IN  /\ \A b \in inside :
                /\ cgBlocks[b].term.op # "ret"
                /\ Successors(cgBlocks, b) \subseteq inside \cup {cleanup}
            /\ cgBlocks[cleanup].calls = <<"free_fn">>
            /\ cgBlocks[cleanup].term = [op |-> "br", targets |-> <<exit>>]
            /\ \A b \in 1..Len(cgBlocks) :
                b # cleanup
                    => \A i \in 1..Len(cgBlocks[b].calls) : cgBlocks[b].calls[i] # "free_fn"

\* ------------------------------------------------------------------------
\* lower_program and eval_call (src/src/codegen/llvm.rs)
\* ------------------------------------------------------------------------

\* eval_call on an identifier callee: a registered symbol is called after
\* the argument count is checked; otherwise a function the module already
\* holds is called directly, with no arguments; otherwise the name is unknown.
eval_call(name, args, module) ==
    IF Resolves(name)
    THEN IF RegistryParams[name] # args
         THEN [ok |-> FALSE, kind |-> "argument count", name |-> name]
         ELSE [ok |-> TRUE, kind |-> "symbol", name |-> name]
    ELSE IF name \in module
    THEN IF args # 0
         THEN [ok |-> FALSE, kind |-> "argument count", name |-> name]
         ELSE [ok |-> TRUE, kind |-> "direct", name |-> name]
    ELSE [ok |-> FALSE, kind |-> "unknown function", name |-> name]

\* lower_program is called on a program that has functions.
LowerProgram_call ==
    /\ lpPc = "idle"
    /\ \E program \in Programs :
        /\ program # <<>>
        /\ lpProgram' = program
    /\ lpPc' = "add"
    /\ UNCHANGED <<lpIndex, lpModule, lpCalls, lpError>>
    /\ UNCHANGED notProg

\* lower_program is called on a program without functions: bail!
LowerProgramEmpty ==
    /\ lpPc = "idle"
    /\ <<>> \in Programs
    /\ lpProgram' = <<>>
    /\ lpPc' = "error"
    /\ lpError' = [kind |-> "no functions", name |-> ""]
    /\ UNCHANGED <<lpIndex, lpModule, lpCalls>>
    /\ UNCHANGED notProg

\* lower_function, first part: the next function is added to the module.
AddFunction ==
    /\ lpPc = "add"
    /\ lpIndex < Len(lpProgram)
    /\ lpModule' = lpModule \cup {lpProgram[lpIndex + 1].name}
    /\ lpPc' = "body"
    /\ UNCHANGED <<lpProgram, lpIndex, lpCalls, lpError>>
    /\ UNCHANGED notProg

\* lower_function, second part: a body without a call.
LowerEmptyBody ==
    /\ lpPc = "body"
    /\ lpProgram[lpIndex + 1].body = <<>>
    /\ lpIndex' = lpIndex + 1
    /\ lpPc' = "add"
    /\ UNCHANGED <<lpProgram, lpModule, lpCalls, lpError>>
    /\ UNCHANGED notProg

\* lower_function, second part: the call of the body is built.
LowerCallOk ==
    /\ lpPc = "body"
    /\ lpProgram[lpIndex + 1].body # <<>>
    /\ LET fn == lpProgram[lpIndex + 1]
           call == eval_call(fn.body[1].callee, fn.body[1].args, lpModule)
       IN  /\ call.ok
           /\ lpCalls' = Append(lpCalls,
                [caller |-> fn.name, callee |-> call.name, kind |-> call.kind])
    /\ lpIndex' = lpIndex + 1
    /\ lpPc' = "add"
    /\ UNCHANGED <<lpProgram, lpModule, lpError>>
    /\ UNCHANGED notProg

\* lower_function, second part: eval_call fails and lower_program with it.
LowerCallError ==
    /\ lpPc = "body"
    /\ lpProgram[lpIndex + 1].body # <<>>
    /\ LET fn == lpProgram[lpIndex + 1]
           call == eval_call(fn.body[1].callee, fn.body[1].args, lpModule)
       IN  /\ ~call.ok
           /\ lpError' = [kind |-> call.kind, name |-> call.name]
    /\ lpPc' = "error"
    /\ UNCHANGED <<lpProgram, lpIndex, lpModule, lpCalls>>
    /\ UNCHANGED notProg

\* After the last function: the entry function must be among them.
CheckMain ==
    /\ lpPc = "add"
    /\ lpIndex = Len(lpProgram)
    /\ IF \E i \in 1..Len(lpProgram) : lpProgram[i].name = "main"
       THEN lpPc' = "done" /\ UNCHANGED lpError
       ELSE lpPc' = "error" /\ lpError' = [kind |-> "no main", name |-> "main"]
    /\ UNCHANGED <<lpProgram, lpIndex, lpModule, lpCalls>>
    /\ UNCHANGED notProg

ProgNext ==
    \/ LowerProgram_call
    \/ LowerProgramEmpty
    \/ AddFunction
    \/ LowerEmptyBody
    \/ LowerCallOk
    \/ LowerCallError
    \/ CheckMain

ProgSpec == Init /\ [][ProgNext]_vars

\* The names a program defines.
DefinedIn(program) == {program[i].name : i \in 1..Len(program)}

\* C23: a call of a name the registry does not resolve but the module defines
\* is lowered to a direct call wherever the function is defined; a wrong
\* number of arguments is an error; the unknown-function error is given only
\* for a name that is neither registered nor defined in the module.
C23_ModuleFunctionsAreCallable ==
    /\ (lpPc = "error" /\ lpError.kind = "unknown function")
          => (~Resolves(lpError.name) /\ lpError.name \notin DefinedIn(lpProgram))
    /\ lpPc = "done" =>
          \A i \in 1..Len(lpProgram) :
              LET fn == lpProgram[i] IN
              (fn.body # <<>> /\ ~Resolves(fn.body[1].callee))
                  => /\ fn.body[1].args = 0
                     /\ \E c \in 1..Len(lpCalls) :
                          lpCalls[c] = [caller |-> fn.name,
                                        callee |-> fn.body[1].callee,
                                        kind |-> "direct"]

\* C24: when build_executable leaves the link step, with an error because
\* the linker failed or with the artifact because it succeeded, the object
\* file it wrote for the key is no longer there.
C24_ObjectRemovedAfterLink ==
    [][(cpc = "link" /\ cpc' # "link") => ~objFile'[ckey]]_vars

\* ------------------------------------------------------------------------
\* otter_builtin_try, otter_builtin_panic (src/src/runtime/stdlib/builtins.rs)
\* ------------------------------------------------------------------------

\* The innermost try in progress.
TopTry == tryStack[Len(tryStack)]

PopTry == SubSeq(tryStack, 1, Len(tryStack) - 1)

\* How many tries have been called.
TriesCalled == Cardinality({h \in HandleIds : tryHow[h] # "none"}) + Len(tryStack)

\* otter_builtin_try up to the callback: a fresh handle, PANIC_STATE reset,
\* the callback entered under catch_unwind. Called by the program or by the
\* callback of a try in progress.
TryBegin ==
    /\ Len(tryStack) < MaxDepth
    /\ TriesCalled < MaxTries
    /\ \A i \in 1..Len(tryStack) : ~tryStack[i].unwinding
    /\ tryStack' = Append(tryStack, [id |-> nextHandleId, unwinding |-> FALSE])
    /\ nextHandleId' = nextHandleId + 1
    /\ panicState' = "none"
    /\ UNCHANGED <<tryResults, tryErrors, tryHow>>
    /\ UNCHANGED notTry

\* The callback calls otter_builtin_panic(msg): PANIC_STATE is set and the
\* thread unwinds.
BuiltinPanic(msg) ==
    /\ tryStack # <<>>
    /\ ~TopTry.unwinding
    /\ panicState' = msg
    /\ tryStack' = [tryStack EXCEPT ![Len(tryStack)].unwinding = TRUE]
    /\ UNCHANGED <<tryResults, tryErrors, nextHandleId, tryHow>>
    /\ UNCHANGED notTry

\* The callback panics in another way (an unwrap, an index): the thread
\* unwinds, PANIC_STATE is not touched.
RustPanic ==
    /\ tryStack # <<>>
    /\ ~TopTry.unwinding
    /\ tryStack' = [tryStack EXCEPT ![Len(tryStack)].unwinding = TRUE]
    /\ UNCHANGED <<panicState, tryResults, tryErrors, nextHandleId, tryHow>>
    /\ UNCHANGED notTry

\* catch_unwind returns Err: an error handle with the message of PANIC_STATE.
TryCaught ==
    /\ tryStack # <<>>
    /\ TopTry.unwinding
    /\ tryErrors' = [tryErrors EXCEPT ![nextHandleId] =
                        IF panicState = "none" THEN "panic: unknown error"
                        ELSE panicState]
    /\ tryResults' = [tryResults EXCEPT ![TopTry.id] = TryResult(FALSE, "", nextHandleId)]
    /\ nextHandleId' = nextHandleId + 1
    /\ tryHow' = [tryHow EXCEPT ![TopTry.id] = "panicked"]
    /\ tryStack' = PopTry
    /\ UNCHANGED panicState
    /\ UNCHANGED notTry

\* catch_unwind returns Ok with a string: it is the result.
CallbackReturnsValue ==
    /\ tryStack # <<>>
    /\ ~TopTry.unwinding
    /\ tryResults' = [tryResults EXCEPT ![TopTry.id] = TryResult(TRUE, "value", 0)]
    /\ tryHow' = [tryHow EXCEPT ![TopTry.id] = "returned"]
    /\ tryStack' = PopTry
    /\ UNCHANGED <<panicState, tryErrors, nextHandleId>>
    /\ UNCHANGED notTry

\* catch_unwind returns Ok with a null pointer: an error handle if PANIC_STATE
\* holds a message, the empty result otherwise.
CallbackReturnsNull ==
    /\ tryStack # <<>>
    /\ ~TopTry.unwinding
    /\ IF panicState # "none"
       THEN /\ tryErrors' = [tryErrors EXCEPT ![nextHandleId] = panicState]
            /\ tryResults' = [tryResults EXCEPT ![TopTry.id] =
                                TryResult(FALSE, "", nextHandleId)]
            /\ nextHandleId' = nextHandleId + 1
       ELSE /\ tryResults' = [tryResults EXCEPT ![TopTry.id] = TryResult(TRUE, "", 0)]
            /\ UNCHANGED <<tryErrors, nextHandleId>>
    /\ tryHow' = [tryHow EXCEPT ![TopTry.id] = "returned"]
    /\ tryStack' = PopTry
    /\ UNCHANGED panicState
    /\ UNCHANGED notTry

\* otter_builtin_try_result(handle) is not null.
try_result_given(h) == tryResults[h].present /\ tryResults[h].has_result

\* otter_builtin_try_error(handle), 0 if there is none.
try_error(h) == IF tryResults[h].present THEN tryResults[h].error ELSE 0

TryNext ==
    \/ TryBegin
    \/ \E msg \in {"boom"} : BuiltinPanic(msg)
    \/ RustPanic
    \/ TryCaught
    \/ CallbackReturnsValue
    \/ CallbackReturnsNull

TrySpec == Init /\ [][TryNext]_vars

\* C25: the handle of a finished try carries a result and no error if its
\* callback returned, an error and no result if its callback panicked,
\* whatever earlier or nested tries on the thread have caught.
C25_ResultXorError ==
    \A h \in HandleIds :
        /\ tryHow[h] = "returned" => (try_result_given(h) /\ try_error(h) = 0)
        /\ tryHow[h] = "panicked" => (~try_result_given(h) /\ try_error(h) # 0)

\* ------------------------------------------------------------------------
\* otter_task_send_int, otter_task_recv_int (src/src/runtime/stdlib/task.rs)
\* ------------------------------------------------------------------------

\* otter_task_send_int(handle, value) is called.
SendCall(t, h, v) ==
    /\ ffPc[t] = "idle"
    /\ ffSent < MaxFfiSends
    /\ ffPc' = [ffPc EXCEPT ![t] = "send_lock"]
    /\ ffHandle' = [ffHandle EXCEPT ![t] = h]
    /\ ffValue' = [ffValue EXCEPT ![t] = v]
    /\ UNCHANGED <<regLock, regQueue, ffSent>>
    /\ UNCHANGED notFfiChan

\* INT_CHANNELS.lock() in send: granted when the mutex is free.
SendLock(t) ==
    /\ ffPc[t] = "send_lock"
    /\ regLock = 0
    /\ regLock' = t
    /\ ffPc' = [ffPc EXCEPT ![t] = "send_push"]
    /\ UNCHANGED <<regQueue, ffHandle, ffValue, ffSent>>
    /\ UNCHANGED notFfiChan

\* wrapper.channel.send(value); the guard is dropped at the end of the if let.
SendPush(t) ==
    /\ ffPc[t] = "send_push"
    /\ regQueue' = [regQueue EXCEPT ![ffHandle[t]] = Append(@, ffValue[t])]
    /\ ffSent' = ffSent + 1
    /\ regLock' = 0
    /\ ffPc' = [ffPc EXCEPT ![t] = "idle"]
    /\ UNCHANGED <<ffHandle, ffValue>>
    /\ UNCHANGED notFfiChan

\* otter_task_recv_int(handle) is called.
RecvCall(t, h) ==
    /\ ffPc[t] = "idle"
    /\ ffPc' = [ffPc EXCEPT ![t] = "recv_lock"]
    /\ ffHandle' = [ffHandle EXCEPT ![t] = h]
    /\ UNCHANGED <<regLock, regQueue, ffValue, ffSent>>
    /\ UNCHANGED notFfiChan

\* INT_CHANNELS.lock() in recv: granted when the mutex is free. The guard is
\* a temporary of the if let scrutinee and lives to the end of its block.
RecvLock(t) ==
    /\ ffPc[t] = "recv_lock"
    /\ regLock = 0
    /\ regLock' = t
    /\ ffPc' = [ffPc EXCEPT ![t] = "recv_wait"]
    /\ UNCHANGED <<regQueue, ffHandle, ffValue, ffSent>>
    /\ UNCHANGED notFfiChan

\* wrapper.channel.recv() returns once the channel holds a value; the call
\* returns it and the guard is dropped.
RecvTake(t) ==
    /\ ffPc[t] = "recv_wait"
    /\ regQueue[ffHandle[t]] # <<>>
    /\ ffValue' = [ffValue EXCEPT ![t] = Head(regQueue[ffHandle[t]])]
    /\ regQueue' = [regQueue EXCEPT ![ffHandle[t]] = Tail(@)]
    /\ regLock' = 0
    /\ ffPc' = [ffPc EXCEPT ![t] = "idle"]
    /\ UNCHANGED <<ffHandle, ffSent>>
    /\ UNCHANGED notFfiChan

FfiChanNext ==
    \E t \in FfiThreads :
        \/ \E h \in ChanHandles, v \in Values : SendCall(t, h, v)
        \/ SendLock(t)
        \/ SendPush(t)
        \/ \E h \in ChanHandles : RecvCall(t, h)
        \/ RecvLock(t)
        \/ RecvTake(t)

FfiChanSpec == Init /\ [][FfiChanNext]_vars

\* A thread is blocked in recv on an empty channel.
BlockedInRecv(t) == ffPc[t] = "recv_wait" /\ regQueue[ffHandle[t]] = <<>>

\* C26: a thread blocked in recv on an empty channel keeps no other thread
\* from completing a send on a channel of that type: no sender waits for the
\* registry mutex while the blocked receiver holds it.
C26_BlockedRecvAdmitsSend ==
    \A r \in FfiThreads, t \in FfiThreads :
        ~(BlockedInRecv(r) /\ regLock = r /\ ffPc[t] = "send_lock")

\* ------------------------------------------------------------------------
\* otter_task_spawn, otter_task_join, otter_task_detach
\* (src/src/runtime/stdlib/task.rs)
\* ------------------------------------------------------------------------

\* The thread is the main thread or runs the callback of a running task.
Runs(a) == IF a = MainThread THEN TRUE ELSE thState[a] = "running"

\* otter_task_spawn up to the registry: scheduler.spawn_fn has queued the
\* task, whose callback a worker starts running; the ids are given in order.
TaskSpawnCall(a) ==
    /\ Runs(a)
    /\ thPc[a] = "idle"
    /\ \E t \in FfiTasks :
        /\ thState[t] = "unspawned"
        /\ \A u \in FfiTasks : u < t => thState[u] # "unspawned"
        /\ thState' = [thState EXCEPT ![t] = "running"]
        /\ thArg' = [thArg EXCEPT ![a] = t]
    /\ thPc' = [thPc EXCEPT ![a] = "spawn_lock"]
    /\ UNCHANGED <<thLock, thHandles>>
    /\ UNCHANGED notFfiTask

\* TASK_HANDLES.lock().insert(task_id, join): needs the mutex free.
TaskSpawnInsert(a) ==
    /\ thPc[a] = "spawn_lock"
    /\ thLock = NoActor
    /\ thHandles' = thHandles \cup {thArg[a]}
    /\ thPc' = [thPc EXCEPT ![a] = "idle"]
    /\ UNCHANGED <<thLock, thState, thArg>>
    /\ UNCHANGED notFfiTask

\* otter_task_join(handle) is called.
TaskJoinCall(a, h) ==
    /\ Runs(a)
    /\ thPc[a] = "idle"
    /\ thState[h] # "unspawned"
    /\ h # a
    /\ thPc' = [thPc EXCEPT ![a] = "join_lock"]
    /\ thArg' = [thArg EXCEPT ![a] = h]
    /\ UNCHANGED <<thLock, thHandles, thState>>
    /\ UNCHANGED notFfiTask

\* `if let Some(join) = TASK_HANDLES.lock().remove(&handle)`: with the handle
\* in the map, the body runs with the guard of the scrutinee still alive;
\* without it, the call returns.
TaskJoinLock(a) ==
    /\ thPc[a] = "join_lock"
    /\ thLock = NoActor
    /\ thHandles' = thHandles \ {thArg[a]}
    /\ IF thArg[a] \in thHandles
       THEN thLock' = a /\ thPc' = [thPc EXCEPT ![a] = "joining"]
       ELSE UNCHANGED thLock /\ thPc' = [thPc EXCEPT ![a] = "idle"]
    /\ UNCHANGED <<thState, thArg>>
    /\ UNCHANGED notFfiTask

\* join.join() returns once the task has completed; the guard is dropped.
TaskJoinDone(a) ==
    /\ thPc[a] = "joining"
    /\ thState[thArg[a]] = "completed"
    /\ thLock' = NoActor
    /\ thPc' = [thPc EXCEPT ![a] = "idle"]
    /\ UNCHANGED <<thHandles, thState, thArg>>
    /\ UNCHANGED notFfiTask

\* otter_task_detach(handle) is called.
TaskDetachCall(a, h) ==
    /\ Runs(a)
    /\ thPc[a] = "idle"
    /\ thState[h] # "unspawned"
    /\ thPc' = [thPc EXCEPT ![a] = "detach_lock"]
    /\ thArg' = [thArg EXCEPT ![a] = h]
    /\ UNCHANGED <<thLock, thHandles, thState>>
    /\ UNCHANGED notFfiTask

\* TASK_HANDLES.lock().remove(&handle): needs the mutex free.
TaskDetachRemove(a) ==
    /\ thPc[a] = "detach_lock"
    /\ thLock = NoActor
    /\ thHandles' = thHandles \ {thArg[a]}
    /\ thPc' = [thPc EXCEPT ![a] = "idle"]
    /\ UNCHANGED <<thLock, thState, thArg>>
    /\ UNCHANGED notFfiTask

\* The callback of a task returns and the task completes.
TaskCallbackReturns(t) ==
    /\ t \in FfiTasks
    /\ thState[t] = "running"
    /\ thPc[t] = "idle"
    /\ thState' = [thState EXCEPT ![t] = "completed"]
    /\ UNCHANGED <<thLock, thHandles, thPc, thArg>>
    /\ UNCHANGED notFfiTask

FfiTaskNext ==
    \E a \in Actors :
        \/ TaskSpawnCall(a)
        \/ TaskSpawnInsert(a)
        \/ \E h \in FfiTasks : TaskJoinCall(a, h)
        \/ TaskJoinLock(a)
        \/ TaskJoinDone(a)
        \/ \E h \in FfiTasks : TaskDetachCall(a, h)
        \/ TaskDetachRemove(a)
        \/ TaskCallbackReturns(a)

FfiTaskSpec == Init /\ [][FfiTaskNext]_vars

\* A thread is blocked in join.join() on a task that has not completed.
BlockedInJoin(a) == thPc[a] = "joining" /\ thState[thArg[a]] # "completed"

\* C27: while a thread is blocked in otter_task_join, the other threads, the
\* joined task among them, can complete spawn, join and detach: none of them
\* waits for the mutex of TASK_HANDLES that the blocked joiner holds.
C27_JoinAdmitsOtherCalls ==
    \A a \in Actors, b \in Actors :
        ~(/\ BlockedInJoin(a)
          /\ thLock = a
          /\ thPc[b] \in {"spawn_lock", "join_lock", "detach_lock"})

\* ------------------------------------------------------------------------
\* Two compiler processes on one cache (src/src/cache/manager.rs,
\* src/src/cache/metadata.rs, src/src/codegen/llvm.rs)
\* ------------------------------------------------------------------------

\* cc has opened the output path and written part of the artifact.
LinkStart ==
    /\ cpc = "link"
    /\ binFile' = [binFile EXCEPT ![binary_path(ckey)] = PartialFile]
    /\ cpc' = "linking"
    /\ UNCHANGED <<metaFile, objFile, ckey, allowCache, phases, lookupResult,
                   measured, outcome, notCache>>

\* cc has written the whole artifact and exits with success; the object file
\* is removed.
LinkFinish(s) ==
    /\ cpc = "linking"
    /\ binFile' = [binFile EXCEPT ![binary_path(ckey)] = s]
    /\ objFile' = [objFile EXCEPT ![ckey] = FALSE]
    /\ cpc' = "measure"
    /\ phases' = Append(phases, "link")
    /\ UNCHANGED <<metaFile, ckey, allowCache, lookupResult, measured, outcome,
                   notCache>>

\* write_to_yaml: File::create has truncated the metadata file.
StoreCreate ==
    /\ cpc = "store"
    /\ metaFile' = [metaFile EXCEPT ![ckey] = TruncatedMetadata]
    /\ cpc' = "storing"
    /\ UNCHANGED <<binFile, objFile, ckey, allowCache, phases, lookupResult,
                   measured, outcome, notCache>>

\* write_to_yaml: write_all has written the document.
StoreWrite ==
    /\ cpc = "storing"
    /\ metaFile' = [metaFile EXCEPT
                      ![ckey] = write_to_yaml(
                          CacheMetadataNew(binary_path(ckey), measured))]
    /\ phases' = Append(phases, "store")
    /\ Return("compiled")
    /\ UNCHANGED <<binFile, objFile, ckey, allowCache, lookupResult, measured,
                   notCache>>

\* CacheManager::lookup(key) in the second process, on the files as they are.
ReaderLookup(k) ==
    /\ rdKey' = k
    /\ rdResult' = lookup(k)
    /\ rdSaw' = [metadata_half_written |-> (cpc = "storing" /\ ckey = k),
                 artifact_being_written |->
                    (cpc = "linking" /\ metaFile[k].exists /\ metaFile[k].parses
                        /\ metaFile[k].binary_path = binary_path(ckey))]
    /\ UNCHANGED cacheVars
    /\ UNCHANGED notReader

TwoProcNext ==
    \/ CacheNext
    \/ LinkStart
    \/ \E s \in Sizes : LinkFinish(s)
    \/ StoreCreate
    \/ StoreWrite
    \/ \E k \in Keys : ReaderLookup(k)

TwoProcSpec == Init /\ [][TwoProcNext]_vars

\* C28: a lookup that runs while another process compiles and stores the key
\* does not fail because the metadata file is half written and does not hit
\* an artifact that is still being written.
C28_ConcurrentLookupIsMissOrCompleteHit ==
    /\ ~(rdResult = "error" /\ rdSaw.metadata_half_written)
    /\ ~(rdResult = "hit" /\ rdSaw.artifact_being_written)

(***************************************************************************)
(* Work submitted after shutdown().                                        *)
(***************************************************************************)
\* Task t was submitted with spawn_fn after shutdown() set the flag: its id
\* is above the ids of the no-op tasks that shutdown() pushed.
SpawnedAfterShutdown(t) ==
    /\ t \in userTasks
    /\ \E n \in 1..(nextTaskId - 1) : n \notin userTasks /\ n < t

\* Every worker thread has left worker_loop: nothing runs a task any more.
AllWorkersExited == \A w \in Workers : wpc[w] = "exited"

(***************************************************************************)
(* C29. A task submitted with spawn_fn after shutdown() is not left queued *)
(* behind a join handle that never completes: no client is inside join()   *)
(* on such a task while the task is not completed and every worker has     *)
(* left worker_loop (a state from which join() can never return).          *)
(***************************************************************************)
C29_PostShutdownJoinReturns ==
    ~ \E j \in Joiners, t \in TaskIds :
        /\ AllWorkersExited
        /\ SpawnedAfterShutdown(t)
        /\ ~completed[t]
        /\ InJoin(j)
        /\ jtarget[j] = t


(***************************************************************************)
(* The JIT function cache: FunctionCache::get and FunctionCache::put over  *)
(* the RwLocks of the map, of the eviction policy and of the byte count.   *)
(* The byte count's lock is only ever held for one load or store, with no  *)
(* other lock requested meanwhile, so its accesses are single steps.       *)
(***************************************************************************)
\* RwLock::write on the map: no writer and no reader.
CacheWriteFree == fcCacheWriter = NoThread /\ fcCacheReaders = {}
\* RwLock::read on the map: no writer.
CacheReadFree == fcCacheWriter = NoThread
\* RwLock::write on the eviction policy.
PolicyWriteFree == fcPolicyWriter = NoThread

\* Vec::retain(|k| k != key).
Retain(order, key) == SelectSeq(order, LAMBDA k : k # key)

\* LruEvictionPolicy::evict: the first key of access_order that the map holds.
evict(order, cache) ==
    LET held == {i \in 1..Len(order) : cache[order[i]] # NoFunction}
    IN IF held = {} THEN NoKey
       ELSE order[CHOOSE i \in held : \A h \in held : i <= h]

\* LruEvictionPolicy::on_access, on_add, on_remove.
on_access(order, key) == Append(Retain(order, key), key)
on_add(order, key) == Append(order, key)
on_remove(order, key) == Retain(order, key)

\* usize addition and subtraction of a build without overflow checks.
WrappingAdd(x, y) == (x + y) % UsizeModulus
WrappingSub(x, y) == (x - y + UsizeModulus) % UsizeModulus

\* The build profile: with overflow checks a usize subtraction below zero
\* panics, without them it wraps. Decided before the first call.
DebugBuild ==
    /\ fcCalls = 0
    /\ ~fcOverflowChecks
    /\ fcOverflowChecks' = TRUE
    /\ UNCHANGED <<fcCache, access_order, current_size_bytes, fcCacheWriter,
                   fcCacheReaders, fcPolicyWriter, fcPc, fcFrame, fcCalls>>
    /\ UNCHANGED notFc

\* A thread calls get(key).
GetCall(a) ==
    /\ fcPc[a] = "idle"
    /\ fcCalls < MaxFcCalls
    /\ \E k \in FcKeys : fcFrame' = [fcFrame EXCEPT ![a].key = k]
    /\ fcPc' = [fcPc EXCEPT ![a] = "get_lock"]
    /\ fcCalls' = fcCalls + 1
    /\ UNCHANGED <<fcCache, access_order, current_size_bytes, fcCacheWriter,
                   fcCacheReaders, fcPolicyWriter, fcOverflowChecks>>
    /\ UNCHANGED notFc

\* get: `let cache = self.cache.write();`
GetLockCache(a) ==
    /\ fcPc[a] = "get_lock"
    /\ CacheWriteFree
    /\ fcCacheWriter' = a
    /\ fcPc' = [fcPc EXCEPT ![a] = "get_lookup"]
    /\ UNCHANGED <<fcCache, access_order, current_size_bytes, fcCacheReaders,
                   fcPolicyWriter, fcFrame, fcCalls, fcOverflowChecks>>
    /\ UNCHANGED notFc

\* get: `cache.get(key)`; None returns and drops the guard, Some goes on to
\* the eviction policy with the guard still held.
GetLookup(a) ==
    /\ fcPc[a] = "get_lookup"
    /\ IF fcCache[fcFrame[a].key] # NoFunction
       THEN /\ fcPc' = [fcPc EXCEPT ![a] = "get_access"]
            /\ UNCHANGED fcCacheWriter
       ELSE /\ fcPc' = [fcPc EXCEPT ![a] = "idle"]
            /\ fcCacheWriter' = NoThread
    /\ UNCHANGED <<fcCache, access_order, current_size_bytes, fcCacheReaders,
                   fcPolicyWriter, fcFrame, fcCalls, fcOverflowChecks>>
    /\ UNCHANGED notFc

\* get: `self.eviction_policy.write().on_access(key)` under the map's write
\* guard, then the return that drops both guards.
GetOnAccess(a) ==
    /\ fcPc[a] = "get_access"
    /\ PolicyWriteFree
    /\ access_order' = on_access(access_order, fcFrame[a].key)
    /\ fcCacheWriter' = NoThread
    /\ fcPc' = [fcPc EXCEPT ![a] = "idle"]
    /\ UNCHANGED <<fcCache, current_size_bytes, fcCacheReaders, fcPolicyWriter,
                   fcFrame, fcCalls, fcOverflowChecks>>
    /\ UNCHANGED notFc

\* A thread calls put(key, code, _): function_size = code.len() and
\* `let mut current_size = *self.current_size_bytes.read();`
PutCall(a) ==
    /\ fcPc[a] = "idle"
    /\ fcCalls < MaxFcCalls
    /\ \E k \in FcKeys, n \in CodeLens :
          fcFrame' = [fcFrame EXCEPT ![a] =
                        [key |-> k, function_size |-> n,
                         current_size |-> current_size_bytes,
                         evict_key |-> NoKey]]
    /\ fcPc' = [fcPc EXCEPT ![a] = "put_while"]
    /\ fcCalls' = fcCalls + 1
    /\ UNCHANGED <<fcCache, access_order, current_size_bytes, fcCacheWriter,
                   fcCacheReaders, fcPolicyWriter, fcOverflowChecks>>
    /\ UNCHANGED notFc

\* put: `while current_size + function_size > self.max_size_bytes`.
PutWhile(a) ==
    /\ fcPc[a] = "put_while"
    /\ fcPc' = [fcPc EXCEPT ![a] =
                  IF WrappingAdd(fcFrame[a].current_size, fcFrame[a].function_size)
                       > max_size_bytes
                  THEN "put_evict_policy" ELSE "put_insert_lock"]
    /\ UNCHANGED <<fcCache, access_order, current_size_bytes, fcCacheWriter,
                   fcCacheReaders, fcPolicyWriter, fcFrame, fcCalls,
                   fcOverflowChecks>>
    /\ UNCHANGED notFc

\* put: the receiver of `self.eviction_policy.write().evict(..)` is evaluated
\* first: the policy's write guard is taken before the argument.
PutLockPolicy(a) ==
    /\ fcPc[a] = "put_evict_policy"
    /\ PolicyWriteFree
    /\ fcPolicyWriter' = a
    /\ fcPc' = [fcPc EXCEPT ![a] = "put_evict_cache"]
    /\ UNCHANGED <<fcCache, access_order, current_size_bytes, fcCacheWriter,
                   fcCacheReaders, fcFrame, fcCalls, fcOverflowChecks>>
    /\ UNCHANGED notFc

\* put: the argument `&self.cache.read()`, taken under the policy's guard.
PutReadCache(a) ==
    /\ fcPc[a] = "put_evict_cache"
    /\ CacheReadFree
    /\ fcCacheReaders' = fcCacheReaders \cup {a}
    /\ fcPc' = [fcPc EXCEPT ![a] = "put_evict"]
    /\ UNCHANGED <<fcCache, access_order, current_size_bytes, fcCacheWriter,
                   fcPolicyWriter, fcFrame, fcCalls, fcOverflowChecks>>
    /\ UNCHANGED notFc

\* put: evict() itself; both guards drop at the end of the statement. None
\* breaks out of the loop.
PutEvict(a) ==
    /\ fcPc[a] = "put_evict"
    /\ LET k == evict(access_order, fcCache)
       IN /\ fcFrame' = [fcFrame EXCEPT ![a].evict_key = k]
          /\ fcPc' = [fcPc EXCEPT ![a] =
                        IF k = NoKey THEN "put_insert_lock" ELSE "put_remove_lock"]
    /\ fcCacheReaders' = fcCacheReaders \ {a}
    /\ fcPolicyWriter' = NoThread
    /\ UNCHANGED <<fcCache, access_order, current_size_bytes, fcCacheWriter,
                   fcCalls, fcOverflowChecks>>
    /\ UNCHANGED notFc

\* put: `self.cache.write()` of `if let Some(func) = self.cache.write().remove(..)`.
PutRemoveLock(a) ==
    /\ fcPc[a] = "put_remove_lock"
    /\ CacheWriteFree
    /\ fcCacheWriter' = a
    /\ fcPc' = [fcPc EXCEPT ![a] = "put_remove"]
    /\ UNCHANGED <<fcCache, access_order, current_size_bytes, fcCacheReaders,
                   fcPolicyWriter, fcFrame, fcCalls, fcOverflowChecks>>
    /\ UNCHANGED notFc

\* put: remove(&key_to_evict) and `current_size -= func.size()`. The guard of
\* the scrutinee lives to the end of the if-let; None drops it and loops.
PutRemove(a) ==
    /\ fcPc[a] = "put_remove"
    /\ LET k == fcFrame[a].evict_key
           size == fcCache[k]
       IN IF size = NoFunction
          THEN /\ fcCacheWriter' = NoThread
               /\ fcPc' = [fcPc EXCEPT ![a] = "put_while"]
               /\ UNCHANGED <<fcCache, fcFrame>>
          ELSE /\ fcCache' = [fcCache EXCEPT ![k] = NoFunction]
               /\ IF fcOverflowChecks /\ fcFrame[a].current_size < size
                  THEN /\ fcCacheWriter' = NoThread
                       /\ fcPc' = [fcPc EXCEPT ![a] = "panicked"]
                       /\ UNCHANGED fcFrame
                  ELSE /\ fcFrame' = [fcFrame EXCEPT ![a].current_size =
                                        WrappingSub(fcFrame[a].current_size, size)]
                       /\ fcPc' = [fcPc EXCEPT ![a] = "put_on_remove"]
                       /\ UNCHANGED fcCacheWriter
    /\ UNCHANGED <<access_order, current_size_bytes, fcCacheReaders,
                   fcPolicyWriter, fcCalls, fcOverflowChecks>>
    /\ UNCHANGED notFc

\* put: `self.eviction_policy.write().on_remove(&key_to_evict)` under the
\* map's write guard, which drops at the end of the if-let.
PutOnRemove(a) ==
    /\ fcPc[a] = "put_on_remove"
    /\ PolicyWriteFree
    /\ access_order' = on_remove(access_order, fcFrame[a].evict_key)
    /\ fcCacheWriter' = NoThread
    /\ fcPc' = [fcPc EXCEPT ![a] = "put_while"]
    /\ UNCHANGED <<fcCache, current_size_bytes, fcCacheReaders, fcPolicyWriter,
                   fcFrame, fcCalls, fcOverflowChecks>>
    /\ UNCHANGED notFc

\* put: `let mut cache = self.cache.write();`
PutInsertLock(a) ==
    /\ fcPc[a] = "put_insert_lock"
    /\ CacheWriteFree
    /\ fcCacheWriter' = a
    /\ fcPc' = [fcPc EXCEPT ![a] = "put_insert"]
    /\ UNCHANGED <<fcCache, access_order, current_size_bytes, fcCacheReaders,
                   fcPolicyWriter, fcFrame, fcCalls, fcOverflowChecks>>
    /\ UNCHANGED notFc

\* put: insert, the two adjustments of current_size and the store of
\* current_size_bytes, all under the map's write guard.
PutInsert(a) ==
    /\ fcPc[a] = "put_insert"
    /\ LET k == fcFrame[a].key
           old == fcCache[k]
           cur == fcFrame[a].current_size
       IN /\ fcCache' = [fcCache EXCEPT ![k] = fcFrame[a].function_size]
          /\ IF fcOverflowChecks /\ old # NoFunction /\ cur < old
             THEN /\ fcCacheWriter' = NoThread
                  /\ fcPc' = [fcPc EXCEPT ![a] = "panicked"]
                  /\ UNCHANGED <<fcFrame, current_size_bytes>>
             ELSE LET new == WrappingAdd(WrappingSub(cur, old),
                                         fcFrame[a].function_size)
                  IN /\ fcFrame' = [fcFrame EXCEPT ![a].current_size = new]
                     /\ current_size_bytes' = new
                     /\ fcPc' = [fcPc EXCEPT ![a] = "put_on_add"]
                     /\ UNCHANGED fcCacheWriter
    /\ UNCHANGED <<access_order, fcCacheReaders, fcPolicyWriter, fcCalls,
                   fcOverflowChecks>>
    /\ UNCHANGED notFc

\* put: `self.eviction_policy.write().on_add(&key)` under the map's write
\* guard, then the return that drops it.
PutOnAdd(a) ==
    /\ fcPc[a] = "put_on_add"
    /\ PolicyWriteFree
    /\ access_order' = on_add(access_order, fcFrame[a].key)
    /\ fcCacheWriter' = NoThread
    /\ fcPc' = [fcPc EXCEPT ![a] = "idle"]
    /\ UNCHANGED <<fcCache, current_size_bytes, fcCacheReaders, fcPolicyWriter,
                   fcFrame, fcCalls, fcOverflowChecks>>
    /\ UNCHANGED notFc

FcNext ==
    \/ DebugBuild
    \/ \E a \in FcThreads : GetCall(a)
    \/ \E a \in FcThreads : GetLockCache(a)
    \/ \E a \in FcThreads : GetLookup(a)
    \/ \E a \in FcThreads : GetOnAccess(a)
    \/ \E a \in FcThreads : PutCall(a)
    \/ \E a \in FcThreads : PutWhile(a)
    \/ \E a \in FcThreads : PutLockPolicy(a)
    \/ \E a \in FcThreads : PutReadCache(a)
    \/ \E a \in FcThreads : PutEvict(a)
    \/ \E a \in FcThreads : PutRemoveLock(a)
    \/ \E a \in FcThreads : PutRemove(a)
    \/ \E a \in FcThreads : PutOnRemove(a)
    \/ \E a \in FcThreads : PutInsertLock(a)
    \/ \E a \in FcThreads : PutInsert(a)
    \/ \E a \in FcThreads : PutOnAdd(a)

FcSpec == Init /\ [][FcNext]_vars

\* Thread a holds a guard of the map's lock, of the policy's lock.
HoldsCacheLock(a) == fcCacheWriter = a \/ a \in fcCacheReaders
HoldsPolicyLock(a) == fcPolicyWriter = a

\* Thread a is blocked in cache.read() / cache.write(), in
\* eviction_policy.write(), because another thread holds the lock.
WaitsForCacheLock(a) ==
    \/ fcPc[a] = "put_evict_cache" /\ ~CacheReadFree
    \/ fcPc[a] \in {"get_lock", "put_remove_lock", "put_insert_lock"}
         /\ ~CacheWriteFree
WaitsForPolicyLock(a) ==
    /\ fcPc[a] \in {"get_access", "put_evict_policy", "put_on_remove", "put_on_add"}
    /\ ~PolicyWriteFree

(***************************************************************************)
(* C30. Concurrent get and put calls on one function cache cannot          *)
(* deadlock: never does one thread hold the cache-map lock and wait for    *)
(* the eviction-policy lock while another thread holds the eviction-policy *)
(* lock and waits for the cache-map lock.                                  *)
(***************************************************************************)
C30_GetPutCannotDeadlock ==
    ~ \E a \in FcThreads, b \in FcThreads :
        /\ a # b
        /\ HoldsCacheLock(a) /\ WaitsForPolicyLock(a)
        /\ HoldsPolicyLock(b) /\ WaitsForCacheLock(b)

====
